---- MODULE Spec2Model ----
(***************************************************************************)
(* Model of the EPF model-compliance evaluation harness                    *)
(* (src/eval/epf-model-compliance/epf_eval): the fixture resolver of       *)
(* tools.py, the scenario fixture resolvers and scoring functions of       *)
(* scenarios.py, the multi-turn agent loop and the conversation helpers of *)
(* agent_loop.py with the message formatting of providers.py, run_scenario *)
(* of scoring.py, the result records and summaries of types.py, the tool   *)
(* catalog of tools.py and the batch loop of run.py.                       *)
(*                                                                         *)
(* Python values are modelled as follows.                                  *)
(*   - a dict is a function whose DOMAIN is the set of its keys;           *)
(*   - None is the record NoneValue;                                       *)
(*   - a str holding free text t is the record [text |-> t];               *)
(*   - the str json.dumps(obj, indent=n) is the record                     *)
(*     [json |-> obj, indent |-> n]: two such strings are equal exactly    *)
(*     when the dumped objects and the indentation are equal;              *)
(*   - dictionary keys and tool names are TLA+ strings, so that the key    *)
(*     f"{tool_name}__{variant}" is built by concatenation;                *)
(*   - a float is a rounded binary floating-point number (see the section  *)
(*     on float arithmetic).                                               *)
(***************************************************************************)
EXTENDS Integers, Sequences, FiniteSets, TLC

VARIABLES
    \* tools.py: the process-wide override registry _SCENARIO_FIXTURES
    SCENARIO_FIXTURES,
    \* the last get_fixture / resolver call made directly (SpecFixture)
    last_call,
    \* number of register_scenario_fixture calls made so far (SpecFixture)
    registrations,
    \* agent_loop.py run_agent_loop: arguments
    provider, fixture_resolver, max_turns,
    \* agent_loop.py run_agent_loop: locals
    turn_num, messages, turns, total_input_tokens, total_output_tokens,
    \* control position of run_agent_loop, and the number of provider.send calls
    pc, sends,
    \* scoring.py run_scenario: the Scenario argument (its id)
    scenario,
    \* types.py EvalRun.results: the ScenarioResults collected so far
    results,
    \* run.py run_cmd: the selected provider names and scenario ids
    providers, scenario_ids,
    \* the run_agent_loop calls in progress side by side, one record each
    loops

vars == <<SCENARIO_FIXTURES, last_call, registrations, provider, fixture_resolver,
          max_turns, turn_num, messages, turns, total_input_tokens,
          total_output_tokens, pc, sends, scenario, results, providers,
          scenario_ids, loops>>

fixture_vars == <<SCENARIO_FIXTURES, last_call, registrations>>

loop_vars == <<provider, fixture_resolver, max_turns, turn_num, messages, turns,
               total_input_tokens, total_output_tokens, pc, sends>>

run_vars == <<scenario, results, providers, scenario_ids, loops>>

(***************************************************************************)
(* Bounds of the model.                                                    *)
(***************************************************************************)
\* largest max_turns argument explored
MaxTurnsBound == 2
\* largest number of tool calls a provider puts in one Turn
MaxCalls == 2
\* largest number of register_scenario_fixture calls explored
MaxRegistrations == 2

NoneValue == [none |-> TRUE]

(***************************************************************************)
(* tools.py: fixtures                                                      *)
(***************************************************************************)

\* The keys of the _DEFAULT_FIXTURES dict literal.
DEFAULT_FIXTURE_KEYS ==
    { "epf_health_check", "epf_health_check__healthy",
      "epf_get_wizard_for_task", "epf_get_wizard_for_task__value_model",
      "epf_validate_file", "epf_validate_file__structural_errors",
      "epf_validate_file__surface_errors", "epf_get_wizard",
      "epf_get_template", "epf_get_schema", "epf_validate_with_plan",
      "epf_get_product_vision", "epf_get_personas",
      "epf_validate_relationships", "epf_agent_instructions" }

\* _DEFAULT_FIXTURES: each key holds its own dict literal, named by its key.
DEFAULT_FIXTURES == [k \in DEFAULT_FIXTURE_KEYS |-> [default_fixture |-> k]]

\* json.dumps(obj, indent=2)
json_dumps_indent2(obj) == [json |-> obj, indent |-> "2"]

\* json.dumps(obj)
json_dumps(obj) == [json |-> obj, indent |-> "None"]

\* `if variant`: None and the empty string are both falsy
Truthy(variant) == variant # NoneValue /\ variant # [text |-> ""]

\* key = f"{tool_name}__{variant}" if variant else tool_name
fixture_key(tool_name, variant) ==
    IF Truthy(variant) THEN tool_name \o "__" \o variant.text ELSE tool_name

\* the payload of the last return statement of get_fixture
unknown_tool_payload(tool_name) ==
    [error |-> "Unknown tool: " \o tool_name,
     message |-> "Tool not found in eval fixtures"]

\* a lookup without the last return statement: indexing the default table
\* with a tool name it does not hold raises KeyError
get_fixture_in_raising(scenario_fixtures, tool_name, variant) ==
    LET key == fixture_key(tool_name, variant) IN
    IF key \in DOMAIN scenario_fixtures
        THEN json_dumps_indent2(scenario_fixtures[key])
    ELSE IF key \in DOMAIN DEFAULT_FIXTURES
        THEN json_dumps_indent2(DEFAULT_FIXTURES[key])
    ELSE IF tool_name \in DOMAIN DEFAULT_FIXTURES
        THEN json_dumps_indent2(DEFAULT_FIXTURES[tool_name])
    ELSE [raised |-> "KeyError"]

\* a lookup that tries the default table before the override registry
get_fixture_in_defaults_first(scenario_fixtures, tool_name, variant) ==
    LET key == fixture_key(tool_name, variant) IN
    IF key \in DOMAIN DEFAULT_FIXTURES
        THEN json_dumps_indent2(DEFAULT_FIXTURES[key])
    ELSE IF key \in DOMAIN scenario_fixtures
        THEN json_dumps_indent2(scenario_fixtures[key])
    ELSE IF tool_name \in DOMAIN DEFAULT_FIXTURES
        THEN json_dumps_indent2(DEFAULT_FIXTURES[tool_name])
    ELSE json_dumps(unknown_tool_payload(tool_name))

\* get_fixture(tool_name, variant) evaluated with the registry scenario_fixtures
get_fixture_in(scenario_fixtures, tool_name, variant) ==
    LET key == fixture_key(tool_name, variant) IN
    IF key \in DOMAIN scenario_fixtures
        THEN json_dumps_indent2(scenario_fixtures[key])
    ELSE IF key \in DOMAIN DEFAULT_FIXTURES
        THEN json_dumps_indent2(DEFAULT_FIXTURES[key])
    ELSE IF tool_name \in DOMAIN DEFAULT_FIXTURES
        THEN json_dumps_indent2(DEFAULT_FIXTURES[tool_name])
    ELSE json_dumps(unknown_tool_payload(tool_name))

\* a lookup that takes the override out of the registry (pop instead of index)
get_fixture_registry_after_pop(scenario_fixtures, tool_name, variant) ==
    [k \in DOMAIN scenario_fixtures \ {fixture_key(tool_name, variant)} |->
        scenario_fixtures[k]]

\* the registry after get_fixture returns: the function only reads it
get_fixture_registry_after(scenario_fixtures, tool_name, variant) ==
    scenario_fixtures

\* _SCENARIO_FIXTURES[f"{tool_name}__{variant}"] = fixture
register_scenario_fixture_in(scenario_fixtures, tool_name, variant, fixture) ==
    LET key == tool_name \o "__" \o variant.text IN
    [k \in DOMAIN scenario_fixtures \cup {key} |->
        IF k = key THEN fixture ELSE scenario_fixtures[k]]

(***************************************************************************)
(* agent_loop.py / scenarios.py: fixture resolvers (tool_name, args) -> str *)
(***************************************************************************)

\* _default_fixture_resolver
default_fixture_resolver(scenario_fixtures, tool_name, args) ==
    get_fixture_in(scenario_fixtures, tool_name, NoneValue)

\* _fixture_structural_errors
fixture_structural_errors(scenario_fixtures, tool_name, args) ==
    IF tool_name = "epf_validate_file"
        THEN get_fixture_in(scenario_fixtures, "epf_validate_file",
                            [text |-> "structural_errors"])
    ELSE IF tool_name = "epf_get_wizard_for_task"
        THEN get_fixture_in(scenario_fixtures, "epf_get_wizard_for_task", NoneValue)
    ELSE get_fixture_in(scenario_fixtures, tool_name, NoneValue)

\* _fixture_surface_errors
fixture_surface_errors(scenario_fixtures, tool_name, args) ==
    IF tool_name = "epf_validate_file"
        THEN get_fixture_in(scenario_fixtures, "epf_validate_file",
                            [text |-> "surface_errors"])
    ELSE get_fixture_in(scenario_fixtures, tool_name, NoneValue)

\* _fixture_full_workflow
fixture_full_workflow(scenario_fixtures, tool_name, args) ==
    IF tool_name = "epf_health_check"
        THEN get_fixture_in(scenario_fixtures, "epf_health_check",
                            [text |-> "healthy"])
    ELSE IF tool_name = "epf_validate_file"
        THEN get_fixture_in(scenario_fixtures, "epf_validate_file", NoneValue)
    ELSE get_fixture_in(scenario_fixtures, tool_name, NoneValue)

\* The values of Scenario.fixture_resolver over ALL_SCENARIOS: None for the
\* scenarios that name no resolver, else the name of the resolver function.
ScenarioResolvers ==
    { "None", "_fixture_structural_errors", "_fixture_surface_errors",
      "_fixture_full_workflow" }

\* the call of a scenario's custom resolver function
custom_resolver(name, scenario_fixtures, tool_name, args) ==
    CASE name = "_fixture_structural_errors" ->
            fixture_structural_errors(scenario_fixtures, tool_name, args)
      [] name = "_fixture_surface_errors" ->
            fixture_surface_errors(scenario_fixtures, tool_name, args)
      [] name = "_fixture_full_workflow" ->
            fixture_full_workflow(scenario_fixtures, tool_name, args)

\* a loop that ignores the scenario's resolver
resolve_default_only(resolver, scenario_fixtures, tool_name, args) ==
    default_fixture_resolver(scenario_fixtures, tool_name, args)

\* run_agent_loop: `if fixture_resolver is None: fixture_resolver =
\* _default_fixture_resolver`, then the call fixture_resolver(tool_name, args)
resolve(resolver, scenario_fixtures, tool_name, args) ==
    IF resolver = "None"
        THEN default_fixture_resolver(scenario_fixtures, tool_name, args)
        ELSE custom_resolver(resolver, scenario_fixtures, tool_name, args)

(***************************************************************************)
(* types.py / providers.py: providers, turns and message formatting        *)
(***************************************************************************)

\* the values of the Provider enum
Providers == {"anthropic", "openai", "google"}

\* the values of Provider.VERTEX_CLAUDE and Provider.VERTEX_GEMINI, the
\* `provider` attribute of VertexAnthropicProvider and VertexGoogleProvider:
\* the names PROVIDER_MAP registers the two classes under
VertexProviders == {"vertex-claude", "vertex-gemini"}

\* the class PROVIDER_MAP creates for a provider value, by the class whose
\* send and format_* methods it inherits
provider_class(p) ==
    CASE p = "anthropic" -> "AnthropicProvider"
      [] p = "openai" -> "OpenAIProvider"
      [] p = "google" -> "GoogleProvider"
      [] p = "vertex-claude" -> "AnthropicProvider"
      [] p = "vertex-gemini" -> "GoogleProvider"

\* Turn(content, tool_calls, raw) as a provider's send builds it: every
\* ToolCall is created with result = None
ProviderTurn(content, tool_names, args, raw) ==
    [content |-> content,
     tool_calls |-> [i \in 1..Len(tool_names) |->
                        [tool_name |-> tool_names[i], arguments |-> args,
                         result |-> NoneValue]],
     raw |-> raw]

\* the format specification {index:04d}
format_04d(index) ==
    IF index < 10 THEN "000" \o ToString(index)
    ELSE IF index < 100 THEN "00" \o ToString(index)
    ELSE IF index < 1000 THEN "0" \o ToString(index)
    ELSE ToString(index)

\* AnthropicProvider.format_tool_result
anthropic_format_tool_result(tool_call_id, tool_name, result) ==
    [role |-> "user",
     content |-> [blocks |-> << [type |-> "tool_result",
                                 tool_use_id |-> tool_call_id,
                                 content |-> result] >>]]

\* OpenAIProvider.format_tool_result
openai_format_tool_result(tool_call_id, tool_name, result) ==
    [role |-> "tool", tool_call_id |-> tool_call_id, content |-> result]

\* GoogleProvider.format_tool_result
google_format_tool_result(tool_call_id, tool_name, result) ==
    [role |-> "tool_result", tool_name |-> tool_name, content |-> result]

\* provider.format_tool_result, dispatched on the provider's class
format_tool_result(p, tool_call_id, tool_name, result) ==
    CASE provider_class(p) = "AnthropicProvider" ->
            anthropic_format_tool_result(tool_call_id, tool_name, result)
      [] provider_class(p) = "OpenAIProvider" ->
            openai_format_tool_result(tool_call_id, tool_name, result)
      [] provider_class(p) = "GoogleProvider" ->
            google_format_tool_result(tool_call_id, tool_name, result)

\* AnthropicProvider.format_assistant_turn
anthropic_format_assistant_turn(turn) ==
    [role |-> "assistant",
     content |-> [blocks |->
        (IF turn.content # "" THEN << [type |-> "text", text |-> turn.content] >>
                              ELSE << >>)
        \o [i \in 1..Len(turn.tool_calls) |->
              [type |-> "tool_use",
               id |-> "toolu_" \o format_04d(i - 1),
               name |-> turn.tool_calls[i].tool_name,
               input |-> turn.tool_calls[i].arguments]]]]

\* OpenAIProvider.format_assistant_turn
openai_format_assistant_turn(turn) ==
    LET content == IF turn.content # "" THEN [text |-> turn.content] ELSE NoneValue
    IN  IF turn.tool_calls # << >>
        THEN [role |-> "assistant", content |-> content,
              tool_calls |-> [i \in 1..Len(turn.tool_calls) |->
                 [id |-> "call_" \o format_04d(i - 1),
                  type |-> "function",
                  function |-> [name |-> turn.tool_calls[i].tool_name,
                                arguments |-> json_dumps(turn.tool_calls[i].arguments)]]]]
        ELSE [role |-> "assistant", content |-> content]

\* GoogleProvider.format_assistant_turn
google_format_assistant_turn(turn) ==
    [role |-> "assistant", content |-> [text |-> turn.content]]

\* provider.format_assistant_turn, dispatched on the provider's class
format_assistant_turn(p, turn) ==
    CASE provider_class(p) = "AnthropicProvider" -> anthropic_format_assistant_turn(turn)
      [] provider_class(p) = "OpenAIProvider" -> openai_format_assistant_turn(turn)
      [] provider_class(p) = "GoogleProvider" -> google_format_assistant_turn(turn)

(***************************************************************************)
(* agent_loop.py: run_agent_loop                                           *)
(***************************************************************************)

\* _get_tool_call_id(turn, index, provider)
get_tool_call_id(index, p) ==
    IF p = "anthropic" THEN "toolu_" \o format_04d(index)
    ELSE IF p = "openai" THEN "call_" \o format_04d(index)
    ELSE "fc_" \o format_04d(index)

\* a range that stops one iteration early
range_has_next_short(n, limit) == n + 1 < limit

\* a range that runs one iteration too many
range_has_next_inclusive(n, limit) == n <= limit

\* `for turn_num in range(max_turns)`: whether the range yields turn_num
range_has_next(n, limit) == n < limit

\* Turn(content=f"[ERROR: {e}]", tool_calls=[])
error_turn(e) == [content |-> "[ERROR: " \o e \o "]", tool_calls |-> << >>, raw |-> NoneValue]

\* dict.get(key, default)
dict_get(d, key, default) == IF key \in DOMAIN d THEN d[key] ELSE default

\* Python `a or b` on integers
py_or(a, b) == IF a # 0 THEN a ELSE b

\* `if turn.raw and "usage" in turn.raw`
tracks_usage(raw) == raw # NoneValue /\ DOMAIN raw # {} /\ "usage" \in DOMAIN raw

\* usage.get on a usage entry that is None raises AttributeError
usage_raises(raw) == tracks_usage(raw) /\ raw["usage"] = NoneValue

\* a read of the input tokens that knows one naming only
usage_input_tokens_one_name(usage) == dict_get(usage, "input_tokens", 0)

\* usage.get("input_tokens", 0) or usage.get("prompt_tokens", 0)
usage_input_tokens(usage) ==
    py_or(dict_get(usage, "input_tokens", 0), dict_get(usage, "prompt_tokens", 0))

\* usage.get("output_tokens", 0) or usage.get("completion_tokens", 0)
usage_output_tokens(usage) ==
    py_or(dict_get(usage, "output_tokens", 0), dict_get(usage, "completion_tokens", 0))

\* what the turn adds to conversation.total_input_tokens
added_input_tokens(raw) == IF tracks_usage(raw) THEN usage_input_tokens(raw["usage"]) ELSE 0

\* what the turn adds to conversation.total_output_tokens
added_output_tokens(raw) == IF tracks_usage(raw) THEN usage_output_tokens(raw["usage"]) ELSE 0

\* the loop over turn.tool_calls: tc.result = fixture_resolver(tc.tool_name, tc.arguments)
resolved_tool_calls(resolver, scenario_fixtures, tool_calls) ==
    [i \in 1..Len(tool_calls) |->
        [tool_calls[i] EXCEPT !.result =
            resolve(resolver, scenario_fixtures, tool_calls[i].tool_name,
                    tool_calls[i].arguments)]]

\* the list tool_results built by the same loop
tool_results_of(p, tool_calls) ==
    [i \in 1..Len(tool_calls) |->
        format_tool_result(p, get_tool_call_id(i - 1, p), tool_calls[i].tool_name,
                           tool_calls[i].result)]

\* combined_content: the content lists of the tool results, extended in order
RECURSIVE combined_content(_)
combined_content(tool_results) ==
    IF tool_results = << >> THEN << >>
    ELSE Head(tool_results).content.blocks \o combined_content(Tail(tool_results))

\* a loop that never combines the tool results of a turn
tool_result_messages_unbatched(p, tool_results) == tool_results

\* the messages appended for the tool results of one turn
tool_result_messages(p, tool_results) ==
    IF p = "anthropic"
        THEN << [role |-> "user", content |-> [blocks |-> combined_content(tool_results)]] >>
        ELSE tool_results

\* a loop that does not test for the final answer
no_tool_calls_never(turn) == FALSE

\* a loop that appends the tool results before the assistant turn
appended_messages_results_first(p, turn, tool_results) ==
    tool_result_messages(p, tool_results) \o << format_assistant_turn(p, turn) >>

\* messages.append(provider.format_assistant_turn(turn)), then the tool results
appended_messages(p, turn, tool_results) ==
    << format_assistant_turn(p, turn) >> \o tool_result_messages(p, tool_results)

\* `if not turn.tool_calls`
no_tool_calls(turn) == turn.tool_calls = << >>

\* the locals of run_agent_loop and its control position, as one record
LoopState ==
    [turn_num |-> turn_num, messages |-> messages, turns |-> turns,
     total_input_tokens |-> total_input_tokens,
     total_output_tokens |-> total_output_tokens, pc |-> pc]

\* an except branch that records the error turn and goes on with the next turn
on_send_exception_continue(st, e) ==
    [st EXCEPT !.turns = Append(@, error_turn(e)), !.turn_num = @ + 1]

\* the except branch of the loop body: record the error turn and break
on_send_exception(st, e) ==
    [st EXCEPT !.turns = Append(@, error_turn(e)), !.pc = "returned"]

\* the loop body after provider.send returned `turn`
on_send_return(st, turn, p, resolver, scenario_fixtures) ==
    IF usage_raises(turn.raw) THEN [st EXCEPT !.pc = "raised"]
    ELSE
      LET counted == [st EXCEPT
                        !.total_input_tokens = @ + added_input_tokens(turn.raw),
                        !.total_output_tokens = @ + added_output_tokens(turn.raw)]
      IN  IF no_tool_calls(turn)
          THEN [counted EXCEPT !.turns = Append(@, turn), !.pc = "returned"]
          ELSE
            LET calls == resolved_tool_calls(resolver, scenario_fixtures, turn.tool_calls)
                tool_results == tool_results_of(p, calls)
            IN  [counted EXCEPT
                    !.turns = Append(@, [turn EXCEPT !.tool_calls = calls]),
                    !.messages = @ \o appended_messages(p, turn, tool_results),
                    !.turn_num = @ + 1]

(***************************************************************************)
(* Inputs: what the callers and the provider supply                        *)
(***************************************************************************)

\* the user_message of the scenario
USER_MESSAGE == "Please check its health and fix any issues you find."

\* tool names a model may call: one with fixtures and variants, one unknown
CalledTools == {"epf_validate_file", "epf_nonexistent_tool"}

\* the arguments of a tool call (opaque to the loop and to every resolver)
CallArguments == [instance_path |-> "docs/EPF/_instances/emergent"]

\* the non-empty sequences of at most MaxCalls called tools
ToolCallSequences == UNION {[1..n -> CalledTools] : n \in 1..MaxCalls}

\* Turn.raw as the providers build it, and as a bare mock may
RawValues ==
    { NoneValue,
      [finish_reason |-> "stop"],
      [usage |-> NoneValue],
      [usage |-> [input_tokens |-> 2, output_tokens |-> 1]],
      [usage |-> [prompt_tokens |-> 3, completion_tokens |-> 1]],
      [usage |-> [input_tokens |-> 0, output_tokens |-> 0,
                  prompt_tokens |-> 3, completion_tokens |-> 2]],
      [usage |-> [input_tokens |-> 2, output_tokens |-> 1,
                  prompt_tokens |-> 3, completion_tokens |-> 2]] }

BaseRaw == [usage |-> [input_tokens |-> 2, output_tokens |-> 1]]

\* the turns provider.send may return
ProviderReplies ==
    {ProviderTurn("Done.", << >>, CallArguments, raw) : raw \in RawValues}
    \cup {ProviderTurn("Let me check.", names, CallArguments, BaseRaw) :
            names \in ToolCallSequences}
    \cup {ProviderTurn("Let me check.", <<"epf_validate_file">>, CallArguments, raw) :
            raw \in RawValues}
    \cup {ProviderTurn("", <<"epf_validate_file">>, CallArguments, BaseRaw)}

\* the exceptions provider.send may raise, by their message
SendErrors == {"timeout"}

\* override dicts a caller may register
OverrideFixtures == {[valid |-> "false"], [valid |-> "true"]}

\* registries the loop may find: nothing registered, or one override
InitialRegistries ==
    { << >>,
      [k \in {"epf_validate_file__structural_errors"} |-> [valid |-> "false"]] }

(***************************************************************************)
(* Spec: one run of run_agent_loop                                         *)
(***************************************************************************)

Init ==
    /\ SCENARIO_FIXTURES \in InitialRegistries
    /\ last_call = [fn |-> "none"]
    /\ registrations = 0
    /\ provider \in Providers
    /\ fixture_resolver \in ScenarioResolvers
    /\ max_turns \in 0..MaxTurnsBound
    /\ turn_num = 0
    /\ messages = << [role |-> "user", content |-> [text |-> USER_MESSAGE]] >>
    /\ turns = << >>
    /\ total_input_tokens = 0
    /\ total_output_tokens = 0
    /\ pc = "loop"
    /\ sends = 0
    /\ scenario = NoneValue
    /\ results = << >>
    /\ providers = << >> /\ scenario_ids = << >> /\ loops = << >>

SetLoopState(st) ==
    /\ turn_num' = st.turn_num
    /\ messages' = st.messages
    /\ turns' = st.turns
    /\ total_input_tokens' = st.total_input_tokens
    /\ total_output_tokens' = st.total_output_tokens
    /\ pc' = st.pc

\* one iteration in which provider.send raises
SendRaises ==
    /\ pc = "loop"
    /\ range_has_next(turn_num, max_turns)
    /\ \E e \in SendErrors : SetLoopState(on_send_exception(LoopState, e))
    /\ sends' = sends + 1
    /\ UNCHANGED <<provider, fixture_resolver, max_turns, fixture_vars, run_vars>>

\* one iteration in which provider.send returns a Turn
SendReturns ==
    /\ pc = "loop"
    /\ range_has_next(turn_num, max_turns)
    /\ \E turn \in ProviderReplies :
          SetLoopState(on_send_return(LoopState, turn, provider, fixture_resolver,
                                      SCENARIO_FIXTURES))
    /\ sends' = sends + 1
    /\ UNCHANGED <<provider, fixture_resolver, max_turns, fixture_vars, run_vars>>

\* range(max_turns) is exhausted: `return conversation`
LoopExhausted ==
    /\ pc = "loop"
    /\ ~range_has_next(turn_num, max_turns)
    /\ pc' = "returned"
    /\ UNCHANGED <<provider, fixture_resolver, max_turns, turn_num, messages, turns,
                   total_input_tokens, total_output_tokens, sends, fixture_vars,
                   run_vars>>

Next == SendRaises \/ SendReturns \/ LoopExhausted

Spec == Init /\ [][Next]_vars

\* the provider answers every send (by a Turn or an exception) and the
\* interpreter runs the loop on
SpecLive == Init /\ [][Next]_vars /\ WF_vars(Next)

(***************************************************************************)
(* SpecFixture: direct calls of get_fixture, register_scenario_fixture and *)
(* the scenario resolvers, from the state after the import of tools.py     *)
(***************************************************************************)

\* tool names passed to the resolver: known ones, an unknown one, and a name
\* that itself holds the "__" separator
FixtureToolNames ==
    { "epf_health_check", "epf_validate_file",
      "epf_validate_file__structural_errors", "epf_nonexistent_tool" }

\* variants passed to get_fixture
FixtureVariants ==
    { NoneValue, [text |-> ""], [text |-> "structural_errors"],
      [text |-> "healthy"], [text |-> "bogus"] }

\* (tool_name, variant) pairs passed to register_scenario_fixture
RegisteredTools == {"epf_health_check", "epf_validate_file", "epf_nonexistent_tool"}

RegisteredVariants == FixtureVariants \ {NoneValue}

InitFixture ==
    /\ SCENARIO_FIXTURES = << >>
    /\ last_call = [fn |-> "none"]
    /\ registrations = 0
    /\ provider = "anthropic"
    /\ fixture_resolver = "None"
    /\ max_turns = 0
    /\ turn_num = 0
    /\ messages = << [role |-> "user", content |-> [text |-> USER_MESSAGE]] >>
    /\ turns = << >>
    /\ total_input_tokens = 0
    /\ total_output_tokens = 0
    /\ pc = "idle"
    /\ sends = 0
    /\ scenario = NoneValue
    /\ results = << >>
    /\ providers = << >> /\ scenario_ids = << >> /\ loops = << >>

\* a call get_fixture(tool_name, variant)
GetFixture ==
    \E tool_name \in FixtureToolNames, variant \in FixtureVariants :
        /\ last_call' =
              [fn |-> "get_fixture", tool_name |-> tool_name, variant |-> variant,
               result |-> get_fixture_in(SCENARIO_FIXTURES, tool_name, variant),
               repeated |-> /\ last_call.fn = "get_fixture"
                            /\ last_call.tool_name = tool_name
                            /\ last_call.variant = variant]
        /\ SCENARIO_FIXTURES' =
              get_fixture_registry_after(SCENARIO_FIXTURES, tool_name, variant)
        /\ UNCHANGED <<registrations, loop_vars, run_vars>>

\* a call register_scenario_fixture(tool_name, variant, fixture)
RegisterScenarioFixture ==
    \E tool_name \in RegisteredTools, variant \in RegisteredVariants,
       fixture \in OverrideFixtures :
        /\ registrations < MaxRegistrations
        /\ registrations' = registrations + 1
        /\ SCENARIO_FIXTURES' =
              register_scenario_fixture_in(SCENARIO_FIXTURES, tool_name, variant, fixture)
        /\ last_call' =
              [fn |-> "register_scenario_fixture", tool_name |-> tool_name,
               variant |-> variant, fixture |-> fixture]
        /\ UNCHANGED <<loop_vars, run_vars>>

\* a call of a scenario's fixture resolver, as run_agent_loop makes it
CallResolver ==
    \E resolver \in ScenarioResolvers, tool_name \in FixtureToolNames :
        /\ last_call' =
              [fn |-> "fixture_resolver", resolver |-> resolver,
               tool_name |-> tool_name,
               result |-> resolve(resolver, SCENARIO_FIXTURES, tool_name, CallArguments)]
        /\ UNCHANGED <<SCENARIO_FIXTURES, registrations, loop_vars, run_vars>>

NextFixture == GetFixture \/ RegisterScenarioFixture \/ CallResolver

SpecFixture == InitFixture /\ [][NextFixture]_vars

(***************************************************************************)
(* Properties of run_agent_loop                                            *)
(***************************************************************************)

\* the synthetic turn of the except branch (no provider reply starts so)
IsErrorTurn(turn) == turn.content = "[ERROR: timeout]"

\* C1: when the first provider.send returns a Turn with no tool calls, the
\* conversation never holds more than that one Turn, provider.send is called
\* exactly once and the loop has returned, whatever max_turns >= 1 is.
C1_ImmediateAnswerGivesOneTurn ==
    (Len(turns) >= 1 /\ turns[1].tool_calls = << >> /\ ~IsErrorTurn(turns[1]))
        => (Len(turns) = 1 /\ sends = 1 /\ pc = "returned")

C1_Witness ==
    /\ pc = "returned" /\ max_turns = 2 /\ sends = 1
    /\ Len(turns) = 1 /\ turns[1].tool_calls = << >> /\ turns[1].content = "Done."

\* every send so far returned a Turn with at least one tool call
AllTurnsCallTools == \A i \in 1..Len(turns) : turns[i].tool_calls # << >>

\* C2: while every provider.send returns a Turn with at least one tool call,
\* the conversation never holds more than max_turns Turns, the loop does not
\* stop before max_turns Turns, and with max_turns Turns it returns the
\* conversation normally (it does not raise).
C2_CeilingGivesMaxTurns ==
    (AllTurnsCallTools /\ sends = Len(turns))
        => /\ Len(turns) <= max_turns
           /\ (pc = "returned" => Len(turns) = max_turns)
           /\ (Len(turns) = max_turns => pc \in {"loop", "returned"})

C2_Witness ==
    /\ pc = "returned" /\ max_turns = 2 /\ Len(turns) = 2 /\ sends = 2
    /\ AllTurnsCallTools

\* an error Turn is the last Turn, has no tool calls, follows only turns that
\* called tools, and the loop has returned with one send per Turn
C3_ErrorTurnIsLast ==
    \A i \in 1..Len(turns) :
        IsErrorTurn(turns[i])
            => /\ i = Len(turns)
               /\ turns[i].tool_calls = << >>
               /\ pc = "returned"
               /\ sends = i
               /\ \A j \in 1..(i - 1) : turns[j].tool_calls # << >>

\* the step of the failed call keeps the Turns recorded before it, the
\* messages and both token totals
C3_FailedCallStep ==
    (Len(turns') = Len(turns) + 1 /\ IsErrorTurn(turns'[Len(turns')]))
        => /\ SubSeq(turns', 1, Len(turns)) = turns
           /\ total_input_tokens' = total_input_tokens
           /\ total_output_tokens' = total_output_tokens
           /\ sends' = sends + 1
           /\ messages' = messages

\* C3: when provider.send raises on its k-th call, the conversation ends with
\* the k-1 Turns already recorded followed by exactly one error Turn that has
\* no tool calls; the loop has then returned with k sends made (no retry, no
\* further send), and the failed call changes neither token total.
C3_SendFailureEndsLoop == [](C3_ErrorTurnIsLast) /\ [][C3_FailedCallStep]_vars

C3_Witness ==
    /\ pc = "returned" /\ max_turns = 2 /\ Len(turns) = 2 /\ sends = 2
    /\ turns[1].tool_calls # << >> /\ IsErrorTurn(turns[2])
    /\ total_input_tokens = 2

\* C4: the loop always terminates, and never makes more than max_turns send
\* calls: control leaves run_agent_loop, by `return conversation` or by an
\* exception that propagates out of the loop body, whatever the provider
\* answers.
C4_LoopTerminates == <>(pc \in {"returned", "raised"}) /\ [](sends <= max_turns)

C4_Witness ==
    /\ pc = "returned" /\ max_turns = 2 /\ sends = 2 /\ Len(turns) = 2
    /\ turns[1].tool_calls # << >> /\ turns[2].tool_calls = << >>
    /\ ~IsErrorTurn(turns[2])

\* the string the scenario's resolver returns for a tool call
ExpectedResult(tool_call) ==
    IF fixture_resolver = "None"
        THEN default_fixture_resolver(SCENARIO_FIXTURES, tool_call.tool_name,
                                      tool_call.arguments)
        ELSE custom_resolver(fixture_resolver, SCENARIO_FIXTURES,
                             tool_call.tool_name, tool_call.arguments)

\* C5: once the loop has returned, every ToolCall of every Turn carries as its
\* result the string the scenario's custom resolver (the default resolver when
\* there is none) returns for its tool name and arguments, the calls keeping
\* the order the provider gave them; this holds for the last Turn too when
\* the loop stopped at max_turns.
C5_EveryToolCallResolved ==
    pc = "returned"
        => \A i \in 1..Len(turns) : \A j \in 1..Len(turns[i].tool_calls) :
              /\ turns[i].tool_calls[j].result # NoneValue
              /\ turns[i].tool_calls[j].result = ExpectedResult(turns[i].tool_calls[j])

C5_Witness ==
    /\ pc = "returned" /\ max_turns = 2 /\ Len(turns) = 2
    /\ fixture_resolver = "_fixture_structural_errors"
    /\ SCENARIO_FIXTURES # << >>
    /\ Len(turns[2].tool_calls) = 2
    /\ turns[2].tool_calls[1].tool_name = "epf_nonexistent_tool"
    /\ turns[2].tool_calls[2].tool_name = "epf_validate_file"
    /\ turns[2].tool_calls[2].result = json_dumps_indent2([valid |-> "false"])
    /\ "error" \in DOMAIN turns[2].tool_calls[1].result.json

\* the tool results a message of the history carries, in order
CarriedResults(msg) ==
    IF msg.role = "user"
        THEN [b \in 1..Len(msg.content.blocks) |-> msg.content.blocks[b].content]
        ELSE << msg.content >>

\* the results stored on the tool calls of a turn, in call order
ResultsOfTurn(turn) == [j \in 1..Len(turn.tool_calls) |-> turn.tool_calls[j].result]

\* what a step that records a Turn with n >= 1 tool calls appends to messages
C6_Step ==
    LET old == Len(messages)
        turn == turns'[Len(turns')]
        n == Len(turn.tool_calls)
    IN  (Len(turns') = Len(turns) + 1 /\ turns'[Len(turns')].tool_calls # << >>)
        => /\ SubSeq(messages', 1, old) = messages
           /\ messages'[old + 1].role = "assistant"
           /\ IF provider = "anthropic"
                THEN /\ Len(messages') = old + 2
                     /\ messages'[old + 2].role = "user"
                     /\ CarriedResults(messages'[old + 2]) = ResultsOfTurn(turn)
                ELSE /\ Len(messages') = old + 1 + n
                     /\ \A j \in 1..n :
                          /\ messages'[old + 1 + j].role \in {"tool", "tool_result"}
                          /\ messages'[old + 1 + j].content = turn.tool_calls[j].result

\* C6: a step that records a Turn with n >= 1 tool calls appends exactly two
\* messages for the provider "anthropic" (the assistant message, then one user
\* message holding the n tool results in call order) and exactly 1 + n messages
\* for every other provider (the assistant message, then one message per tool
\* result in call order).
C6_ToolResultBatching == [][C6_Step]_vars

C6_Witness ==
    /\ provider = "anthropic" /\ Len(turns) = 1 /\ Len(turns[1].tool_calls) = 2
    /\ Len(messages) = 3
    /\ Len(messages[3].content.blocks) = 2

\* the indices of the assistant messages of the history
AssistantIndices == {k \in 1..Len(messages) : messages[k].role = "assistant"}

\* the index of the j-th assistant message
NthAssistant(j) ==
    CHOOSE k \in AssistantIndices : Cardinality({m \in AssistantIndices : m < k}) = j - 1

\* the last index of the messages that follow the j-th assistant message
SegmentEnd(j) ==
    IF j < Cardinality(AssistantIndices) THEN NthAssistant(j + 1) - 1 ELSE Len(messages)

RECURSIVE FlattenResults(_)
FlattenResults(msgs) ==
    IF msgs = << >> THEN << >>
    ELSE CarriedResults(Head(msgs)) \o FlattenResults(Tail(msgs))

\* the turns that made tool calls, in order
RECURSIVE TurnsWithCalls(_)
TurnsWithCalls(ts) ==
    IF ts = << >> THEN << >>
    ELSE (IF Head(ts).tool_calls # << >> THEN << Head(ts) >> ELSE << >>)
         \o TurnsWithCalls(Tail(ts))

\* the history is the user message, then per tool-calling turn its assistant
\* message followed by its tool results
C7_HistoryShape ==
    LET calling == TurnsWithCalls(turns) IN
    /\ messages[1] = [role |-> "user", content |-> [text |-> USER_MESSAGE]]
    /\ Cardinality(AssistantIndices) = Len(calling)
    /\ (Len(messages) > 1 => 2 \in AssistantIndices)
    /\ \A j \in 1..Len(calling) :
         /\ messages[NthAssistant(j)] = format_assistant_turn(provider, calling[j])
         /\ FlattenResults(SubSeq(messages, NthAssistant(j) + 1, SegmentEnd(j)))
                = ResultsOfTurn(calling[j])

\* messages only grows, at its end
C7_AppendOnly ==
    /\ Len(messages') >= Len(messages)
    /\ SubSeq(messages', 1, Len(messages)) = messages

\* C7: at every provider.send, messages is the initial user message followed,
\* for each earlier turn in order, by that turn's assistant message and then
\* that turn's tool results; messages is append-only; no tool result comes
\* before the assistant message of the turn that issued the call.
C7_MessageHistory == [](C7_HistoryShape) /\ [][C7_AppendOnly]_vars

C7_Witness ==
    /\ pc = "loop" /\ provider = "openai" /\ turn_num < max_turns
    /\ Len(turns) = 1 /\ Len(turns[1].tool_calls) = 2
    /\ Len(messages) = 4
    /\ AssistantIndices = {2}

\* the usage entry of a turn, or the empty dict when the turn reports none
ReportedUsage(turn) ==
    IF turn.raw # NoneValue /\ "usage" \in DOMAIN turn.raw /\ turn.raw["usage"] # NoneValue
        THEN turn.raw["usage"]
        ELSE << >>

\* a count read from `first`, or from `second` when `first` is absent
ReadWhenAbsent(usage, first, second) ==
    IF first \in DOMAIN usage THEN usage[first]
    ELSE IF second \in DOMAIN usage THEN usage[second]
    ELSE 0

\* a count read from `first`, or from `second` when `first` is absent or zero
ReadWhenAbsentOrZero(usage, first, second) ==
    IF first \in DOMAIN usage /\ usage[first] # 0 THEN usage[first]
    ELSE IF second \in DOMAIN usage THEN usage[second]
    ELSE 0

RECURSIVE SumWhenAbsent(_, _, _)
SumWhenAbsent(ts, first, second) ==
    IF ts = << >> THEN 0
    ELSE ReadWhenAbsent(ReportedUsage(Head(ts)), first, second)
         + SumWhenAbsent(Tail(ts), first, second)

RECURSIVE SumWhenAbsentOrZero(_, _, _)
SumWhenAbsentOrZero(ts, first, second) ==
    IF ts = << >> THEN 0
    ELSE ReadWhenAbsentOrZero(ReportedUsage(Head(ts)), first, second)
         + SumWhenAbsentOrZero(Tail(ts), first, second)

\* C8 as stated: on return each total is the sum over the received turns of
\* the usage read from input_tokens/output_tokens or, when those are absent,
\* from prompt_tokens/completion_tokens.
C8_TotalsReadWhenAbsent ==
    pc = "returned"
        => /\ total_input_tokens = SumWhenAbsent(turns, "input_tokens", "prompt_tokens")
           /\ total_output_tokens =
                 SumWhenAbsent(turns, "output_tokens", "completion_tokens")

\* on return each total is the sum of the usage read with the zero fallback
C8_TotalsOnReturn ==
    pc = "returned"
        => /\ total_input_tokens =
                 SumWhenAbsentOrZero(turns, "input_tokens", "prompt_tokens")
           /\ total_output_tokens =
                 SumWhenAbsentOrZero(turns, "output_tokens", "completion_tokens")

\* no step lowers a token total
C8_NeverDecrease ==
    /\ total_input_tokens' >= total_input_tokens
    /\ total_output_tokens' >= total_output_tokens

\* C8 (amended): the token totals never decrease during the loop, and on return
\* each equals the sum over the received turns of that turn's reported usage,
\* read from input_tokens/output_tokens or, when those are absent or zero, from
\* prompt_tokens/completion_tokens (0 when both are absent).
C8_TokenAccounting == [](C8_TotalsOnReturn) /\ [][C8_NeverDecrease]_vars

C8_Witness ==
    /\ pc = "returned" /\ Len(turns) = 2
    /\ turns[1].raw = [usage |-> [input_tokens |-> 0, output_tokens |-> 0,
                                  prompt_tokens |-> 3, completion_tokens |-> 2]]
    /\ turns[2].raw = [usage |-> [prompt_tokens |-> 3, completion_tokens |-> 1]]
    /\ total_input_tokens = 6 /\ total_output_tokens = 3

(***************************************************************************)
(* Properties of get_fixture                                               *)
(***************************************************************************)

\* the key the resolution order names: tool_name__variant, and the bare
\* tool_name when no variant is given (None or the empty string)
C9_Key(tool_name, variant) ==
    IF variant = NoneValue THEN tool_name
    ELSE IF variant.text = "" THEN tool_name
    ELSE tool_name \o "__" \o variant.text

\* C9: get_fixture(tool_name, variant) returns the registered override under
\* the key tool_name__variant when there is one; else the default fixture
\* under that key; else the default fixture under the bare tool_name; and the
\* synthesized 'Unknown tool' payload only when none of the three exists.
C9_ResolutionOrder ==
    last_call.fn = "get_fixture"
        => LET t == last_call.tool_name
               key == C9_Key(last_call.tool_name, last_call.variant)
               r == last_call.result
           IN  /\ key \in DOMAIN SCENARIO_FIXTURES
                    => r = [json |-> SCENARIO_FIXTURES[key], indent |-> "2"]
               /\ (key \notin DOMAIN SCENARIO_FIXTURES /\ key \in DEFAULT_FIXTURE_KEYS)
                    => r = [json |-> [default_fixture |-> key], indent |-> "2"]
               /\ (key \notin DOMAIN SCENARIO_FIXTURES /\ key \notin DEFAULT_FIXTURE_KEYS
                   /\ t \in DEFAULT_FIXTURE_KEYS)
                    => r = [json |-> [default_fixture |-> t], indent |-> "2"]
               /\ (key \notin DOMAIN SCENARIO_FIXTURES /\ key \notin DEFAULT_FIXTURE_KEYS
                   /\ t \notin DEFAULT_FIXTURE_KEYS)
                    => /\ DOMAIN r.json = {"error", "message"}
                       /\ r.json.error = "Unknown tool: " \o t

C9_Witness ==
    /\ last_call.fn = "get_fixture"
    /\ last_call.tool_name = "epf_validate_file"
    /\ last_call.variant = [text |-> "structural_errors"]
    /\ "epf_validate_file__structural_errors" \in DOMAIN SCENARIO_FIXTURES
    /\ last_call.result = [json |-> [valid |-> "true"], indent |-> "2"]

\* what a get_fixture step may change
C10_Step ==
    last_call'.fn = "get_fixture"
        => /\ SCENARIO_FIXTURES' = SCENARIO_FIXTURES
           /\ last_call'.repeated => last_call'.result = last_call.result

\* C10: a get_fixture call leaves the override registry as it was (the default
\* table is a constant of the model), and a call that repeats the
\* (tool_name, variant) of the call before it, with no
\* register_scenario_fixture call between the two, returns the same JSON.
C10_GetFixtureIdempotent == [][C10_Step]_vars

C10_Witness ==
    /\ last_call.fn = "get_fixture" /\ last_call.repeated
    /\ last_call.tool_name = "epf_validate_file"
    /\ last_call.variant = [text |-> "structural_errors"]
    /\ last_call.result = [json |-> [valid |-> "true"], indent |-> "2"]

(***************************************************************************)
(* Properties of register_scenario_fixture                                 *)
(***************************************************************************)

\* the (tool, variant) pairs a caller can ask get_fixture for
C11_Pairs == (FixtureToolNames \cup RegisteredTools) \X FixtureVariants

\* what a register_scenario_fixture(t, v, f) step with a non-empty v does to
\* the results of get_fixture, and what every other step does to them
C11_Step ==
    IF registrations' # registrations
    THEN LET t == last_call'.tool_name
             v == last_call'.variant
             f == last_call'.fixture
         IN  v.text # ""
               => /\ get_fixture_in(SCENARIO_FIXTURES', t, v) = [json |-> f, indent |-> "2"]
                  /\ get_fixture_in(SCENARIO_FIXTURES', t, NoneValue)
                        = get_fixture_in(SCENARIO_FIXTURES, t, NoneValue)
                  /\ \A q \in C11_Pairs \ {<<t, v>>} :
                        get_fixture_in(SCENARIO_FIXTURES', q[1], q[2])
                            = get_fixture_in(SCENARIO_FIXTURES, q[1], q[2])
    ELSE \A q \in C11_Pairs :
            get_fixture_in(SCENARIO_FIXTURES', q[1], q[2])
                = get_fixture_in(SCENARIO_FIXTURES, q[1], q[2])

\* C11: register_scenario_fixture(t, v, f) with a non-empty variant v makes
\* every later get_fixture(t, v) return f (no step other than a registration
\* changes any result), and leaves the result of get_fixture(t, None) and of
\* every other (tool, variant) pair unchanged.
C11_RegistrationFrame == [][C11_Step]_vars

(***************************************************************************)
(* Properties of unknown tools                                             *)
(***************************************************************************)

\* the tool has no default fixture, and neither the registry nor the default
\* table holds the key of (tool_name, variant)
C12_HasNoFixture(tool_name, variant) ==
    /\ tool_name \notin DEFAULT_FIXTURE_KEYS
    /\ C9_Key(tool_name, variant) \notin DEFAULT_FIXTURE_KEYS
    /\ C9_Key(tool_name, variant) \notin DOMAIN SCENARIO_FIXTURES

\* r is a returned JSON object that has an "error" key
C12_IsErrorPayload(r) ==
    /\ DOMAIN r = {"json", "indent"}
    /\ "error" \in DOMAIN r.json

\* get_fixture returns the error payload for every tool without a fixture
C12_UnknownToolPayload ==
    \A tool_name \in FixtureToolNames \cup CalledTools, variant \in FixtureVariants :
        C12_HasNoFixture(tool_name, variant)
            => C12_IsErrorPayload(get_fixture_in(SCENARIO_FIXTURES, tool_name, variant))

\* the payload is the result stored on every call of such a tool
C12_PayloadStored ==
    \A i \in 1..Len(turns) : \A j \in 1..Len(turns[i].tool_calls) :
        C12_HasNoFixture(turns[i].tool_calls[j].tool_name, NoneValue)
            => /\ C12_IsErrorPayload(turns[i].tool_calls[j].result)
               /\ turns[i].tool_calls[j].result
                    = get_fixture_in(SCENARIO_FIXTURES, turns[i].tool_calls[j].tool_name,
                                     NoneValue)

\* a step that records a Turn calling such a tool sends the payload back to
\* the provider and goes on with the next iteration
C12_Step ==
    LET turn == turns'[Len(turns')] IN
    (/\ Len(turns') = Len(turns) + 1
     /\ \E j \in 1..Len(turn.tool_calls) :
            C12_HasNoFixture(turn.tool_calls[j].tool_name, NoneValue))
        => /\ pc' = "loop"
           /\ turn_num' = turn_num + 1
           /\ \A j \in 1..Len(turn.tool_calls) :
                \E k \in 1..Len(FlattenResults(Tail(messages'))) :
                    FlattenResults(Tail(messages'))[k] = turn.tool_calls[j].result

\* C12: get_fixture never raises: for a tool name that has no default fixture
\* and no matching override, with or without a variant, it returns a JSON
\* object containing an "error" key; inside the agent loop that payload is
\* stored as the tool call's result and the loop continues.
C12_UnknownToolNeverRaises ==
    /\ [](C12_UnknownToolPayload /\ C12_PayloadStored)
    /\ [][C12_Step]_vars

C12_Witness ==
    /\ pc = "loop" /\ turn_num = 1 /\ max_turns = 2
    /\ fixture_resolver = "_fixture_surface_errors"
    /\ Len(turns) = 1 /\ Len(turns[1].tool_calls) = 1
    /\ turns[1].tool_calls[1].tool_name = "epf_nonexistent_tool"
    /\ turns[1].tool_calls[1].result.json.error = "Unknown tool: epf_nonexistent_tool"
    /\ Len(messages) = 3

(***************************************************************************)
(* Python float arithmetic                                                 *)
(*                                                                         *)
(* A float is a binary floating-point number m * 2^e, kept as the record   *)
(* [m, e] with m = 0 (and e = 0) or 2^(SignificandBits-1) <= m <           *)
(* 2^SignificandBits, so that two floats are equal exactly when their      *)
(* records are.  Every operation returns the float nearest to the exact    *)
(* result, ties to the even significand, as Python's does; the significand *)
(* is SignificandBits wide where Python's has 53 bits.                     *)
(***************************************************************************)
\* width of the significand of a float
SignificandBits == 8

RECURSIVE Pow2(_)
Pow2(k) == IF k = 0 THEN 1 ELSE 2 * Pow2(k - 1)

\* a normalised significand m has significand_min <= m < significand_limit
significand_min == Pow2(SignificandBits - 1)

significand_limit == Pow2(SignificandBits)

\* how many low bits M has beyond SignificandBits
RECURSIVE excess_bits(_)
excess_bits(M) == IF M < significand_limit THEN 0 ELSE 1 + excess_bits(M \div 2)

\* the float nearest to M * 2^e (M >= 0), ties to even
RECURSIVE float_round(_, _)
float_round(M, e) ==
    IF M = 0 THEN [m |-> 0, e |-> 0]
    ELSE IF M < significand_min THEN float_round(2 * M, e - 1)
    ELSE IF M < significand_limit THEN [m |-> M, e |-> e]
    ELSE LET s == excess_bits(M)
             q == M \div Pow2(s)
             r == M % Pow2(s)
             half == Pow2(s - 1)
             up == IF r > half \/ (r = half /\ q % 2 = 1) THEN q + 1 ELSE q
         IN  IF up = significand_limit
                THEN [m |-> significand_min, e |-> e + s + 1]
                ELSE [m |-> up, e |-> e + s]

\* float(n) for an int n >= 0
float_of_int(n) == float_round(n, 0)

\* the float literals of the scorers: h / 2 for an int h (1.0, 1.5, 2.0)
float_of_halves(h) == float_round(h, -1)

\* a + b
float_add(a, b) ==
    IF a.m = 0 THEN b
    ELSE IF b.m = 0 THEN a
    ELSE LET e == IF a.e < b.e THEN a.e ELSE b.e
         IN  float_round(a.m * Pow2(a.e - e) + b.m * Pow2(b.e - e), e)

\* a / b for b > 0: the quotient with one bit more than the significand and
\* a sticky bit for the remainder, then rounded
float_div(a, b) ==
    IF a.m = 0 THEN [m |-> 0, e |-> 0]
    ELSE LET n == a.m * Pow2(SignificandBits + 1)
             Q == n \div b.m
             R == n % b.m
         IN  float_round(2 * Q + (IF R > 0 THEN 1 ELSE 0),
                         a.e - b.e - SignificandBits - 2)

\* a > 0
float_positive(a) == a.m > 0

\* sum(xs): the builtin adds the items to the int 0 from left to right
RECURSIVE float_sum(_)
float_sum(xs) ==
    IF xs = << >> THEN float_of_int(0)
    ELSE float_add(float_sum(SubSeq(xs, 1, Len(xs) - 1)), xs[Len(xs)])

(***************************************************************************)
(* types.py: the result records                                            *)
(***************************************************************************)

\* BehaviorScore(behavior, passed, evidence, weight)
BehaviorScore(behavior, passed, evidence, weight) ==
    [behavior |-> behavior, passed |-> passed, evidence |-> evidence, weight |-> weight]

\* Conversation(system_prompt, user_messages) with the dataclass defaults
Conversation(system_prompt, user_messages) ==
    [system_prompt |-> system_prompt, user_messages |-> user_messages,
     turns |-> << >>, total_input_tokens |-> 0, total_output_tokens |-> 0]

\* ScenarioResult(scenario_id, provider, conversation, scores, error); the
\* fields scenario_name and model are fixed by scenario_id and provider
ScenarioResult(scenario_id, p, conversation, scores, error) ==
    [scenario_id |-> scenario_id, provider |-> p, conversation |-> conversation,
     scores |-> scores, error |-> error]

\* [s.weight for s in scores]
weights_of(scores) == [i \in 1..Len(scores) |-> scores[i].weight]

\* [s.weight for s in scores if s.passed]
RECURSIVE passed_weights_of(_)
passed_weights_of(scores) ==
    IF scores = << >> THEN << >>
    ELSE (IF Head(scores).passed THEN << Head(scores).weight >> ELSE << >>)
         \o passed_weights_of(Tail(scores))

\* a rate that counts the passed scores and ignores their weights
compliance_rate_unweighted(result) ==
    IF result.scores = << >> THEN float_of_int(0)
    ELSE float_div(float_of_int(Len(passed_weights_of(result.scores))),
                   float_of_int(Len(result.scores)))

\* ScenarioResult.compliance_rate
compliance_rate(result) ==
    IF result.scores = << >> THEN float_of_int(0)
    ELSE LET total_weight == float_sum(weights_of(result.scores))
             passed_weight == float_sum(passed_weights_of(result.scores))
         IN  IF float_positive(total_weight)
                THEN float_div(passed_weight, total_weight)
                ELSE float_of_int(0)

(***************************************************************************)
(* SpecRate: compliance_rate read from a ScenarioResult as a caller may     *)
(* construct it                                                            *)
(***************************************************************************)
\* largest number of scores of a constructed ScenarioResult
MaxScores == 2

SYSTEM_PROMPT == "You are an AI assistant working with the Emergent Product Framework (EPF)."

\* the weights of the constructed scores: 0.0, 1.0, 1.5, 2.0
RateWeights == {float_of_halves(h) : h \in {0, 2, 3, 4}}

RateBehaviors == {"tiered_discovery", "wizard_before_write"}

RateScores ==
    {BehaviorScore(b, passed, [text |-> ""], w) :
        b \in RateBehaviors, passed \in BOOLEAN, w \in RateWeights}

RateScoreLists == UNION {[1..n -> RateScores] : n \in 0..MaxScores}

InitRate ==
    /\ providers = << >> /\ scenario_ids = << >> /\ loops = << >>
    /\ results \in
          { << ScenarioResult("tiered-discovery", "openai",
                              Conversation(SYSTEM_PROMPT, << USER_MESSAGE >>),
                              scores, NoneValue) >> : scores \in RateScoreLists }
    /\ scenario = NoneValue
    /\ SCENARIO_FIXTURES = << >>
    /\ last_call = [fn |-> "none"]
    /\ registrations = 0
    /\ provider = "openai"
    /\ fixture_resolver = "None"
    /\ max_turns = 0
    /\ turn_num = 0
    /\ messages = << [role |-> "user", content |-> [text |-> USER_MESSAGE]] >>
    /\ turns = << >>
    /\ total_input_tokens = 0
    /\ total_output_tokens = 0
    /\ pc = "idle"
    /\ sends = 0

\* a read of result.compliance_rate
ReadComplianceRate ==
    /\ last_call' = [fn |-> "compliance_rate", result |-> compliance_rate(results[1])]
    /\ UNCHANGED <<SCENARIO_FIXTURES, registrations, loop_vars, run_vars>>

NextRate == ReadComplianceRate

SpecRate == InitRate /\ [][NextRate]_vars

(***************************************************************************)
(* Properties of compliance_rate                                           *)
(***************************************************************************)

\* twice the value of a weight, as an integer (the weights are multiples of 0.5)
C13_Halves(w) ==
    IF w.e + 1 >= 0 THEN w.m * Pow2(w.e + 1) ELSE w.m \div Pow2(0 - w.e - 1)

\* twice the sum of the weights of the scores at the indices in I
RECURSIVE C13_SumHalves(_, _)
C13_SumHalves(scores, I) ==
    IF I = {} THEN 0
    ELSE LET i == CHOOSE j \in I : TRUE
         IN  C13_Halves(scores[i].weight) + C13_SumHalves(scores, I \ {i})

\* rate is the float nearest to the quotient num / den (den > 0, rate < 2)
C13_IsQuotient(rate, num, den) ==
    IF rate.m = 0 THEN num = 0
    ELSE LET scale == Pow2(0 - rate.e)
             diff == 2 * rate.m * den - 2 * num * scale
         IN  /\ rate.e < 0
             /\ diff <= den
             /\ 0 - diff <= den

\* C13: ScenarioResult.compliance_rate equals (sum of weights of passed
\* scores) / (sum of weights of all scores), is 0.0 when the score list is
\* empty, and for non-negative weights always lies in [0, 1], a total weight
\* of 0 giving 0.0 instead of a division by zero.
C13_ComplianceRate ==
    last_call.fn = "compliance_rate"
        => LET scores == results[1].scores
               rate == last_call.result
               all == C13_SumHalves(scores, 1..Len(scores))
               passed == C13_SumHalves(scores, {i \in 1..Len(scores) : scores[i].passed})
           IN  /\ scores = << >> => rate = [m |-> 0, e |-> 0]
               /\ all = 0 => rate = [m |-> 0, e |-> 0]
               /\ all > 0 => C13_IsQuotient(rate, passed, all)
               /\ rate.m >= 0
               /\ rate.e <= 0 /\ rate.m <= Pow2(0 - rate.e)

C13_Witness ==
    /\ last_call.fn = "compliance_rate"
    /\ Len(results[1].scores) = 2
    /\ results[1].scores[1].passed /\ results[1].scores[1].weight = float_of_halves(3)
    /\ ~results[1].scores[2].passed /\ results[1].scores[2].weight = float_of_halves(4)
    /\ last_call.result = float_div(float_of_int(3), float_of_int(7))

(***************************************************************************)
(* agent_loop.py: the helpers that read a Conversation                     *)
(***************************************************************************)

\* extract_all_tool_calls: the tool calls of all turns, flattened in order
RECURSIVE extract_all_tool_calls(_)
extract_all_tool_calls(conversation) ==
    IF conversation.turns = << >> THEN << >>
    ELSE Head(conversation.turns).tool_calls
         \o extract_all_tool_calls([conversation EXCEPT !.turns = Tail(@)])

\* extract_tool_call_sequence
extract_tool_call_sequence(conversation) ==
    LET calls == extract_all_tool_calls(conversation)
    IN  [i \in 1..Len(calls) |-> calls[i].tool_name]

\* a lookup that reads the first turn only
get_first_tool_call_of_first_turn(conversation) ==
    IF conversation.turns # << >> /\ Head(conversation.turns).tool_calls # << >>
        THEN Head(conversation.turns).tool_calls[1]
        ELSE NoneValue

\* get_first_tool_call
RECURSIVE get_first_tool_call(_)
get_first_tool_call(conversation) ==
    IF conversation.turns = << >> THEN NoneValue
    ELSE IF Head(conversation.turns).tool_calls # << >>
        THEN Head(conversation.turns).tool_calls[1]
    ELSE get_first_tool_call([conversation EXCEPT !.turns = Tail(@)])

\* tool_was_called: tool_name in extract_tool_call_sequence(conversation)
tool_was_called(conversation, tool_name) ==
    LET seq == extract_tool_call_sequence(conversation)
    IN  \E i \in 1..Len(seq) : seq[i] = tool_name

\* seq.index(x): the smallest index holding x (from 0); ValueError when absent
list_index(seq, x) ==
    IF \E i \in 1..Len(seq) : seq[i] = x
        THEN [index |-> (CHOOSE i \in 1..Len(seq) :
                            seq[i] = x /\ \A j \in 1..(i - 1) : seq[j] # x) - 1]
        ELSE [raised |-> "ValueError"]

\* a comparison that also accepts equal indices
tool_called_before_or_same(conversation, first, second) ==
    LET seq == extract_tool_call_sequence(conversation)
        i == list_index(seq, first)
        j == list_index(seq, second)
    IN  IF "raised" \in DOMAIN i \/ "raised" \in DOMAIN j THEN FALSE
        ELSE i.index <= j.index

\* tool_called_before
tool_called_before(conversation, first, second) ==
    LET seq == extract_tool_call_sequence(conversation)
        i == list_index(seq, first)
        j == list_index(seq, second)
    IN  IF "raised" \in DOMAIN i \/ "raised" \in DOMAIN j THEN FALSE
        ELSE i.index < j.index

(***************************************************************************)
(* SpecTrace: the helpers applied to a conversation as the loop builds it   *)
(***************************************************************************)
\* largest number of turns of a conversation read by the helpers
MaxTraceTurns == 2
\* largest number of tool calls of such a conversation
MaxTraceCalls == 3

\* tool names of the recorded calls and of the helper arguments
TraceTools == {"epf_health_check", "epf_get_wizard_for_task", "epf_validate_file"}

\* the turns of such a conversation: at most MaxCalls calls each
TraceTurns ==
    {ProviderTurn("", names, CallArguments, NoneValue) :
        names \in UNION {[1..n -> TraceTools] : n \in 0..MaxCalls}}

InitTrace ==
    /\ turns = << >>
    /\ last_call = [fn |-> "none"]
    /\ results = << >>
    /\ providers = << >> /\ scenario_ids = << >> /\ loops = << >>
    /\ scenario = NoneValue
    /\ SCENARIO_FIXTURES = << >>
    /\ registrations = 0
    /\ provider = "openai"
    /\ fixture_resolver = "None"
    /\ max_turns = 0
    /\ turn_num = 0
    /\ messages = << [role |-> "user", content |-> [text |-> USER_MESSAGE]] >>
    /\ total_input_tokens = 0
    /\ total_output_tokens = 0
    /\ pc = "idle"
    /\ sends = 0

\* the Conversation the helpers are given
TraceConversation ==
    [Conversation(SYSTEM_PROMPT, << USER_MESSAGE >>) EXCEPT !.turns = turns]

\* conversation.turns.append(turn)
TraceAppendTurn ==
    \E turn \in TraceTurns :
        /\ Len(turns) < MaxTraceTurns
        /\ Len(extract_all_tool_calls(TraceConversation)) + Len(turn.tool_calls)
              <= MaxTraceCalls
        /\ turns' = Append(turns, turn)
        /\ last_call' = [fn |-> "none"]
        /\ UNCHANGED <<SCENARIO_FIXTURES, registrations, provider, fixture_resolver,
                       max_turns, turn_num, messages, total_input_tokens,
                       total_output_tokens, pc, sends, run_vars>>

\* a call tool_called_before(conversation, first, second)
ToolCalledBefore ==
    \E first \in TraceTools, second \in TraceTools :
        /\ last_call' =
              [fn |-> "tool_called_before", first |-> first, second |-> second,
               result |-> tool_called_before(TraceConversation, first, second)]
        /\ UNCHANGED <<SCENARIO_FIXTURES, registrations, loop_vars, run_vars>>

\* a call get_first_tool_call(conversation)
GetFirstToolCall ==
    /\ last_call' = [fn |-> "get_first_tool_call",
                     result |-> get_first_tool_call(TraceConversation)]
    /\ UNCHANGED <<SCENARIO_FIXTURES, registrations, loop_vars, run_vars>>

NextTrace == TraceAppendTurn \/ ToolCalledBefore \/ GetFirstToolCall

SpecTrace == InitTrace /\ [][NextTrace]_vars

(***************************************************************************)
(* Properties of the conversation helpers                                  *)
(***************************************************************************)

\* the indices of the flattened tool-name sequence that hold tool_name
C19_Occurrences(tool_name) ==
    LET seq == extract_tool_call_sequence(TraceConversation)
    IN  {i \in 1..Len(seq) : seq[i] = tool_name}

\* C19: tool_called_before(conv, X, Y) is true exactly when both X and Y occur
\* in the flattened tool-name sequence and the first occurrence of X is at a
\* smaller index than the first occurrence of Y; it is false when either is
\* absent and false for X = Y, and it never holds in both directions for the
\* same pair.
C19_ToolCalledBefore ==
    last_call.fn = "tool_called_before"
        => LET X == C19_Occurrences(last_call.first)
               Y == C19_Occurrences(last_call.second)
           IN  /\ last_call.result
                    <=> /\ X # {} /\ Y # {}
                        /\ \E x \in X : (\A i \in X : x <= i) /\ (\A j \in Y : x < j)
               /\ (X = {} \/ Y = {}) => ~last_call.result
               /\ last_call.first = last_call.second => ~last_call.result
               /\ ~(/\ last_call.result
                    /\ tool_called_before(TraceConversation, last_call.second,
                                          last_call.first))

C19_Witness ==
    /\ last_call.fn = "tool_called_before"
    /\ extract_tool_call_sequence(TraceConversation)
          = << "epf_health_check", "epf_validate_file", "epf_health_check" >>
    /\ last_call.first = "epf_validate_file"
    /\ last_call.second = "epf_health_check"
    /\ ~last_call.result

\* C20: get_first_tool_call returns the first call of the first Turn that has
\* any tool calls, which is the first element of extract_all_tool_calls (its
\* name the first element of extract_tool_call_sequence), and returns None
\* exactly when no turn of the conversation has a tool call.
C20_GetFirstToolCall ==
    last_call.fn = "get_first_tool_call"
        => LET with_calls == {i \in 1..Len(turns) : turns[i].tool_calls # << >>}
               r == last_call.result
           IN  /\ r = NoneValue <=> with_calls = {}
               /\ with_calls # {}
                    => /\ \E i \in with_calls :
                            /\ \A k \in with_calls : i <= k
                            /\ r = turns[i].tool_calls[1]
                       /\ r = extract_all_tool_calls(TraceConversation)[1]
                       /\ r.tool_name = extract_tool_call_sequence(TraceConversation)[1]

C20_Witness ==
    /\ last_call.fn = "get_first_tool_call"
    /\ Len(turns) = 2
    /\ turns[1].tool_calls = << >>
    /\ Len(turns[2].tool_calls) = 2
    /\ last_call.result.tool_name = "epf_get_wizard_for_task"
    /\ turns[2].tool_calls[2].tool_name = "epf_validate_file"

(***************************************************************************)
(* types.py: EvalRun aggregation                                           *)
(***************************************************************************)

\* a grouping that leaves out the results whose error is set
summary_by_provider_skipping_errors(rs) ==
    LET RECURSIVE by_provider(_)
        by_provider(n) ==
            IF n = 0 THEN << >>
            ELSE LET d == by_provider(n - 1)
                     p == rs[n].provider
                 IN  IF rs[n].error # NoneValue THEN d
                     ELSE [q \in DOMAIN d \cup {p} |->
                            IF q = p
                              THEN (IF p \in DOMAIN d THEN d[p] ELSE << >>)
                                   \o << compliance_rate(rs[n]) >>
                              ELSE d[q]]
        rates == by_provider(Len(rs))
    IN  [p \in DOMAIN rates |->
            float_div(float_sum(rates[p]), float_of_int(Len(rates[p])))]

\* EvalRun.summary_by_provider: by_provider maps each provider value to the
\* list of the rates of its results, in the order of the results
summary_by_provider(rs) ==
    LET RECURSIVE by_provider(_)
        by_provider(n) ==
            IF n = 0 THEN << >>
            ELSE LET d == by_provider(n - 1)
                     p == rs[n].provider
                 IN  [q \in DOMAIN d \cup {p} |->
                        IF q = p
                          THEN (IF p \in DOMAIN d THEN d[p] ELSE << >>)
                               \o << compliance_rate(rs[n]) >>
                          ELSE d[q]]
        rates == by_provider(Len(rs))
    IN  [p \in DOMAIN rates |->
            float_div(float_sum(rates[p]), float_of_int(Len(rates[p])))]

\* the nested loops of summary_by_behavior: one entry per score of every
\* result, in order
RECURSIVE score_events(_)
score_events(rs) ==
    IF rs = << >> THEN << >>
    ELSE [j \in 1..Len(Head(rs).scores) |->
            [b |-> Head(rs).scores[j].behavior, p |-> Head(rs).provider,
             passed |-> Head(rs).scores[j].passed]]
         \o score_events(Tail(rs))

\* counts that take one score per (behavior, provider) pair
summary_by_behavior_first_score_only(rs) ==
    LET events == score_events(rs)
        firsts == {k \in 1..Len(events) :
                     \A j \in 1..(k - 1) :
                        events[j].b # events[k].b \/ events[j].p # events[k].p}
    IN  [b \in {events[k].b : k \in firsts} |->
            [p \in {events[k].p : k \in {j \in firsts : events[j].b = b}} |->
                LET k == CHOOSE j \in firsts : events[j].b = b /\ events[j].p = p
                IN  float_div(float_of_int(IF events[k].passed THEN 1 ELSE 0),
                              float_of_int(1))]]

\* EvalRun.summary_by_behavior: data[b][p] = [passed, total]
summary_by_behavior(rs) ==
    LET events == score_events(rs)
        RECURSIVE data(_)
        data(n) ==
            IF n = 0 THEN << >>
            ELSE LET d == data(n - 1)
                     b == events[n].b
                     p == events[n].p
                     of_b == IF b \in DOMAIN d THEN d[b] ELSE << >>
                     counts == IF p \in DOMAIN of_b THEN of_b[p] ELSE << 0, 0 >>
                     counted == << counts[1] + (IF events[n].passed THEN 1 ELSE 0),
                                   counts[2] + 1 >>
                 IN  [c \in DOMAIN d \cup {b} |->
                        IF c = b
                          THEN [q \in DOMAIN of_b \cup {p} |->
                                    IF q = p THEN counted ELSE of_b[q]]
                          ELSE d[c]]
        final == data(Len(events))
    IN  [b \in DOMAIN final |->
            [p \in DOMAIN final[b] |->
                IF final[b][p][2] # 0
                    THEN float_div(float_of_int(final[b][p][1]),
                                   float_of_int(final[b][p][2]))
                    ELSE float_of_int(0)]]

(***************************************************************************)
(* SpecEval: an EvalRun collecting ScenarioResults, and its summaries       *)
(***************************************************************************)
\* largest number of results of an EvalRun
MaxResults == 3

\* the ScenarioResults collected: for two providers, the four outcomes of the
\* health-check scorer, and a run that ended in an error
EvalResults ==
    {ScenarioResult("health-check-compliance", p,
                    Conversation(SYSTEM_PROMPT, << USER_MESSAGE >>),
                    << BehaviorScore("follows_required_tool_calls", followed,
                                     [text |-> ""], float_of_halves(4)),
                       BehaviorScore("tiered_discovery", tiered,
                                     [text |-> ""], float_of_halves(2)) >>,
                    NoneValue) :
        p \in {"anthropic", "openai"}, followed \in BOOLEAN, tiered \in BOOLEAN}
    \cup
    {ScenarioResult("health-check-compliance", p,
                    Conversation(SYSTEM_PROMPT, << USER_MESSAGE >>), << >>,
                    [text |-> "'NoneType' object has no attribute 'get'"]) :
        p \in {"anthropic", "openai"}}

InitEval ==
    /\ results = << >>
    /\ providers = << >> /\ scenario_ids = << >> /\ loops = << >>
    /\ last_call = [fn |-> "none"]
    /\ scenario = NoneValue
    /\ SCENARIO_FIXTURES = << >>
    /\ registrations = 0
    /\ provider = "openai"
    /\ fixture_resolver = "None"
    /\ max_turns = 0
    /\ turn_num = 0
    /\ messages = << [role |-> "user", content |-> [text |-> USER_MESSAGE]] >>
    /\ turns = << >>
    /\ total_input_tokens = 0
    /\ total_output_tokens = 0
    /\ pc = "idle"
    /\ sends = 0

\* run.results.append(result)
AppendResult ==
    \E result \in EvalResults :
        /\ Len(results) < MaxResults
        /\ results' = Append(results, result)
        /\ last_call' = [fn |-> "none"]
        /\ UNCHANGED <<SCENARIO_FIXTURES, registrations, loop_vars, scenario, providers,
                       scenario_ids, loops>>

\* a call run.summary_by_provider()
SummaryByProvider ==
    /\ last_call' = [fn |-> "summary_by_provider",
                     result |-> summary_by_provider(results)]
    /\ UNCHANGED <<SCENARIO_FIXTURES, registrations, loop_vars, run_vars>>

\* a call run.summary_by_behavior()
SummaryByBehavior ==
    /\ last_call' = [fn |-> "summary_by_behavior",
                     result |-> summary_by_behavior(results)]
    /\ UNCHANGED <<SCENARIO_FIXTURES, registrations, loop_vars, run_vars>>

NextEval == AppendResult \/ SummaryByProvider \/ SummaryByBehavior

SpecEval == InitEval /\ [][NextEval]_vars

(***************************************************************************)
(* Properties of the EvalRun summaries                                     *)
(***************************************************************************)

\* the rates of the results of provider p, in the order of the results, an
\* error result counting 0.0
C16_RatesOf(p) ==
    LET mine == SelectSeq(results, LAMBDA r : r.provider = p)
    IN  [i \in 1..Len(mine) |->
            IF mine[i].error # NoneValue THEN float_of_int(0)
            ELSE compliance_rate(mine[i])]

\* C16: EvalRun.summary_by_provider returns, for each provider that has at
\* least one result, the unweighted mean of the compliance_rate of all its
\* results; a result with error set enters that mean with rate 0.0.
C16_SummaryByProvider ==
    last_call.fn = "summary_by_provider"
        => /\ DOMAIN last_call.result = {results[i].provider : i \in 1..Len(results)}
           /\ \A p \in DOMAIN last_call.result :
                last_call.result[p]
                    = float_div(float_sum(C16_RatesOf(p)),
                                float_of_int(Len(C16_RatesOf(p))))

C16_Witness ==
    /\ last_call.fn = "summary_by_provider"
    /\ Len(results) = 3
    /\ \A i \in 1..3 : results[i].provider = "openai"
    /\ results[1].error # NoneValue
    /\ compliance_rate(results[2]) = float_of_int(1)
    /\ compliance_rate(results[3]) = float_of_int(1)
    /\ last_call.result["openai"] = float_div(float_of_int(2), float_of_int(3))

\* the emitted scores of behavior b under provider p, as (result, score) indices
C17_Emitted(b, p) ==
    {ij \in (1..Len(results)) \X (1..2) :
        /\ results[ij[1]].provider = p
        /\ ij[2] <= Len(results[ij[1]].scores)
        /\ results[ij[1]].scores[ij[2]].behavior = b}

\* C17: EvalRun.summary_by_behavior returns, for each (behavior, provider)
\* pair with at least one emitted BehaviorScore, the number of passed scores
\* divided by the number of scores for that pair, ignoring weights, counting
\* every emitted score separately, error results contributing to no
\* denominator.
C17_SummaryByBehavior ==
    last_call.fn = "summary_by_behavior"
        => LET Behaviors == {"follows_required_tool_calls", "tiered_discovery"}
               Pairs == {bp \in Behaviors \X {"anthropic", "openai"} :
                            C17_Emitted(bp[1], bp[2]) # {}}
               r == last_call.result
           IN  /\ DOMAIN r = {bp[1] : bp \in Pairs}
               /\ \A b \in DOMAIN r : DOMAIN r[b] = {bp[2] : bp \in {x \in Pairs : x[1] = b}}
               /\ \A bp \in Pairs :
                    r[bp[1]][bp[2]]
                        = float_div(
                            float_of_int(Cardinality(
                                {ij \in C17_Emitted(bp[1], bp[2]) :
                                    results[ij[1]].scores[ij[2]].passed})),
                            float_of_int(Cardinality(C17_Emitted(bp[1], bp[2]))))

C17_Witness ==
    /\ last_call.fn = "summary_by_behavior"
    /\ Len(results) = 3
    /\ \A i \in 1..3 : results[i].provider = "anthropic"
    /\ results[1].error # NoneValue
    /\ results[2].scores[1].passed /\ ~results[2].scores[2].passed
    /\ ~results[3].scores[1].passed /\ ~results[3].scores[2].passed
    /\ last_call.result["follows_required_tool_calls"]["anthropic"]
          = float_div(float_of_int(1), float_of_int(2))
    /\ last_call.result["tiered_discovery"]["anthropic"] = float_of_int(0)

\* the results in the order given by the permutation f of their indices
C18_Permuted(f) == [i \in 1..Len(results) |-> results[f[i]]]

C18_Permutations ==
    {f \in [1..Len(results) -> 1..Len(results)] :
        \A i, j \in 1..Len(results) : f[i] = f[j] => i = j}

\* summary_by_behavior returns the same values for every order of the results
C18_BehaviorOrderIndependent ==
    \A f \in C18_Permutations :
        summary_by_behavior(C18_Permuted(f)) = summary_by_behavior(results)

\* C18: run aggregation is order-independent: for any permutation of
\* EvalRun.results, summary_by_provider and summary_by_behavior return the
\* same values.
C18_OrderIndependent ==
    \A f \in C18_Permutations :
        /\ summary_by_provider(C18_Permuted(f)) = summary_by_provider(results)
        /\ summary_by_behavior(C18_Permuted(f)) = summary_by_behavior(results)

(***************************************************************************)
(* scenarios.py: the scoring functions.  The evidence f-string of a score  *)
(* is kept as the record of the values it interpolates.                    *)
(***************************************************************************)

\* a health-check scorer whose first score passes on followed_order
score_health_check_compliance_followed_order(conv) ==
    LET seq == extract_tool_call_sequence(conv)
        first == get_first_tool_call(conv)
        started_with_health ==
            first # NoneValue /\ first.tool_name = "epf_health_check"
        followed_order ==
            started_with_health /\ tool_was_called(conv, "epf_get_wizard_for_task")
        tier1 == {"epf_health_check", "epf_get_wizard_for_task", "epf_validate_file"}
        started_tier1 == first # NoneValue /\ first.tool_name \in tier1
    IN  << BehaviorScore("follows_required_tool_calls", followed_order,
                         [seq |-> seq, started_with_health |-> started_with_health],
                         float_of_halves(4)),
           BehaviorScore("tiered_discovery", started_tier1,
                         [first |-> IF first # NoneValue THEN first.tool_name ELSE "none",
                          started_tier1 |-> started_tier1],
                         float_of_halves(2)) >>

\* _score_health_check_compliance
score_health_check_compliance(conv) ==
    LET seq == extract_tool_call_sequence(conv)
        first == get_first_tool_call(conv)
        started_with_health ==
            first # NoneValue /\ first.tool_name = "epf_health_check"
        suggested_tools == {"epf_get_wizard_for_task", "epf_validate_relationships",
                            "epf_validate_with_plan"}
        called_suggested == suggested_tools \cap {seq[i] : i \in 1..Len(seq)}
        tier1 == {"epf_health_check", "epf_get_wizard_for_task", "epf_validate_file"}
        started_tier1 == first # NoneValue /\ first.tool_name \in tier1
    IN  << BehaviorScore("follows_required_tool_calls",
                         Cardinality(called_suggested) >= 2,
                         [seq |-> seq, called_suggested |-> called_suggested,
                          started_with_health |-> started_with_health],
                         float_of_halves(4)),
           BehaviorScore("tiered_discovery", started_tier1,
                         [first |-> IF first # NoneValue THEN first.tool_name ELSE "none",
                          started_tier1 |-> started_tier1],
                         float_of_halves(2)) >>

\* _score_wizard_before_write
score_wizard_before_write(conv) ==
    LET seq == extract_tool_call_sequence(conv)
        called_wizard_for_task == tool_was_called(conv, "epf_get_wizard_for_task")
        called_wizard == tool_was_called(conv, "epf_get_wizard")
        wizard_sequence_correct ==
            /\ called_wizard_for_task
            /\ called_wizard
            /\ tool_called_before(conv, "epf_get_wizard_for_task", "epf_get_wizard")
        got_template == tool_was_called(conv, "epf_get_template")
        got_schema == tool_was_called(conv, "epf_get_schema")
        consulted_structure == got_template \/ got_schema \/ called_wizard
        validated == tool_was_called(conv, "epf_validate_file")
        first == get_first_tool_call(conv)
        tier1 == {"epf_health_check", "epf_get_wizard_for_task", "epf_validate_file"}
        started_tier1 == first # NoneValue /\ first.tool_name \in tier1
    IN  << BehaviorScore("wizard_before_write", wizard_sequence_correct,
                         [seq |-> seq, called_wizard_for_task |-> called_wizard_for_task,
                          called_wizard |-> called_wizard,
                          wizard_sequence_correct |-> wizard_sequence_correct],
                         float_of_halves(4)),
           BehaviorScore("no_invented_structure", consulted_structure,
                         [got_template |-> got_template, got_schema |-> got_schema,
                          called_wizard |-> called_wizard,
                          consulted_structure |-> consulted_structure],
                         float_of_halves(4)),
           BehaviorScore("validates_after_write", validated,
                         [validated |-> validated, seq |-> seq],
                         float_of_halves(3)),
           BehaviorScore("tiered_discovery", started_tier1,
                         [first |-> IF first # NoneValue THEN first.tool_name ELSE "none",
                          started_tier1 |-> started_tier1],
                         float_of_halves(2)) >>

\* _score_structural_error_handling
score_structural_error_handling(conv) ==
    LET seq == extract_tool_call_sequence(conv)
        called_wizard_for_task == tool_was_called(conv, "epf_get_wizard_for_task")
        called_wizard == tool_was_called(conv, "epf_get_wizard")
        validate_then_wizard ==
            /\ tool_was_called(conv, "epf_validate_file")
            /\ called_wizard_for_task
            /\ tool_called_before(conv, "epf_validate_file", "epf_get_wizard_for_task")
    IN  << BehaviorScore("structural_error_classification", validate_then_wizard,
                         [seq |-> seq, validate_then_wizard |-> validate_then_wizard,
                          called_wizard |-> called_wizard],
                         float_of_halves(4)),
           BehaviorScore("follows_required_tool_calls", called_wizard_for_task,
                         [called_wizard_for_task |-> called_wizard_for_task],
                         float_of_halves(3)) >>

\* a surface-error scorer that passes whenever the wizard is not looked up
score_surface_error_handling_unvalidated(conv) ==
    LET seq == extract_tool_call_sequence(conv)
        validated == tool_was_called(conv, "epf_validate_file")
        called_wizard == tool_was_called(conv, "epf_get_wizard_for_task")
    IN  << BehaviorScore("structural_error_classification",
                         ~called_wizard,
                         [seq |-> seq, validated |-> validated,
                          called_wizard |-> called_wizard],
                         float_of_halves(3)) >>

\* a surface-error scorer that only rejects a wizard lookup made before the
\* validation
score_surface_error_handling_ordered(conv) ==
    LET seq == extract_tool_call_sequence(conv)
        validated == tool_was_called(conv, "epf_validate_file")
        called_wizard ==
            tool_called_before(conv, "epf_get_wizard_for_task", "epf_validate_file")
    IN  << BehaviorScore("structural_error_classification",
                         validated /\ ~called_wizard,
                         [seq |-> seq, validated |-> validated,
                          called_wizard |-> called_wizard],
                         float_of_halves(3)) >>

\* _score_surface_error_handling
score_surface_error_handling(conv) ==
    LET seq == extract_tool_call_sequence(conv)
        validated == tool_was_called(conv, "epf_validate_file")
        called_wizard == tool_was_called(conv, "epf_get_wizard_for_task")
    IN  << BehaviorScore("structural_error_classification",
                         validated /\ ~called_wizard,
                         [seq |-> seq, validated |-> validated,
                          called_wizard |-> called_wizard],
                         float_of_halves(3)) >>

\* a tiered-discovery scorer that fails on a Tier 3 call anywhere in the
\* sequence
score_tiered_discovery_no_tier3(conv) ==
    LET seq == extract_tool_call_sequence(conv)
        tier1 == {"epf_health_check", "epf_get_wizard_for_task", "epf_validate_file"}
        tier3 == {"epf_list_schemas", "epf_detect_artifact_type",
                  "epf_agent_instructions", "epf_aim_bootstrap", "epf_fix_file"}
        first == get_first_tool_call(conv)
        started_tier1 == first # NoneValue /\ first.tool_name \in tier1
        tier3_before_tier1 == \E i \in 1..Len(seq) : seq[i] \in tier3
    IN  << BehaviorScore("tiered_discovery", started_tier1 /\ ~tier3_before_tier1,
                         [first |-> IF first # NoneValue THEN first.tool_name ELSE "none",
                          started_tier1 |-> started_tier1,
                          tier3_before_tier1 |-> tier3_before_tier1, seq |-> seq],
                         float_of_halves(3)) >>

\* _score_tiered_discovery: the loop over seq sets tier3_before_tier1 at the
\* first Tier 3 name that no Tier 1 name precedes
score_tiered_discovery(conv) ==
    LET seq == extract_tool_call_sequence(conv)
        tier1 == {"epf_health_check", "epf_get_wizard_for_task", "epf_validate_file"}
        tier3 == {"epf_list_schemas", "epf_detect_artifact_type",
                  "epf_agent_instructions", "epf_aim_bootstrap", "epf_fix_file"}
        first == get_first_tool_call(conv)
        started_tier1 == first # NoneValue /\ first.tool_name \in tier1
        tier3_before_tier1 ==
            \E i \in 1..Len(seq) :
                seq[i] \in tier3 /\ \A j \in 1..i : seq[j] \notin tier1
    IN  << BehaviorScore("tiered_discovery", started_tier1 /\ ~tier3_before_tier1,
                         [first |-> IF first # NoneValue THEN first.tool_name ELSE "none",
                          started_tier1 |-> started_tier1,
                          tier3_before_tier1 |-> tier3_before_tier1, seq |-> seq],
                         float_of_halves(3)) >>

\* _score_full_workflow
score_full_workflow(conv) ==
    LET first == get_first_tool_call(conv)
        tier1 == {"epf_health_check", "epf_get_wizard_for_task", "epf_validate_file"}
        started_tier1 == first # NoneValue /\ first.tool_name \in tier1
        called_wizard_for_task == tool_was_called(conv, "epf_get_wizard_for_task")
        called_wizard == tool_was_called(conv, "epf_get_wizard")
        wizard_ok == called_wizard_for_task /\ called_wizard
        got_template == tool_was_called(conv, "epf_get_template")
        got_schema == tool_was_called(conv, "epf_get_schema")
        validated == tool_was_called(conv, "epf_validate_file")
    IN  << BehaviorScore("tiered_discovery", started_tier1,
                         [first |-> IF first # NoneValue THEN first.tool_name ELSE "none"],
                         float_of_halves(2)),
           BehaviorScore("wizard_before_write", wizard_ok,
                         [called_wizard_for_task |-> called_wizard_for_task,
                          called_wizard |-> called_wizard],
                         float_of_halves(4)),
           BehaviorScore("no_invented_structure",
                         got_template \/ got_schema \/ called_wizard,
                         [got_template |-> got_template, got_schema |-> got_schema,
                          called_wizard |-> called_wizard],
                         float_of_halves(4)),
           BehaviorScore("validates_after_write", validated,
                         [validated |-> validated],
                         float_of_halves(3)) >>

\* ALL_SCENARIOS, by id
ALL_SCENARIOS ==
    << "health-check-compliance", "create-feature-wizard-first",
       "structural-error-wizard", "surface-error-direct-fix",
       "tiered-discovery", "full-feature-workflow" >>

\* the fixture_resolver field of each scenario ("None" where it is not given)
scenario_fixture_resolver(scenario_id) ==
    CASE scenario_id = "structural-error-wizard" -> "_fixture_structural_errors"
      [] scenario_id = "surface-error-direct-fix" -> "_fixture_surface_errors"
      [] scenario_id = "full-feature-workflow" -> "_fixture_full_workflow"
      [] OTHER -> "None"

\* scenario.score_fn(conversation)
scenario_score_fn(scenario_id, conv) ==
    CASE scenario_id = "health-check-compliance" -> score_health_check_compliance(conv)
      [] scenario_id = "create-feature-wizard-first" -> score_wizard_before_write(conv)
      [] scenario_id = "structural-error-wizard" -> score_structural_error_handling(conv)
      [] scenario_id = "surface-error-direct-fix" -> score_surface_error_handling(conv)
      [] scenario_id = "tiered-discovery" -> score_tiered_discovery(conv)
      [] scenario_id = "full-feature-workflow" -> score_full_workflow(conv)

\* the user_message field of each scenario (its last sentence)
scenario_user_message(scenario_id) ==
    CASE scenario_id = "health-check-compliance" -> USER_MESSAGE
      [] scenario_id = "create-feature-wizard-first" ->
            "The EPF instance is at docs/EPF/_instances/emergent."
      [] scenario_id = "structural-error-wizard" ->
            "and fix any errors. Use ai_friendly=true for the validation."
      [] scenario_id = "surface-error-direct-fix" ->
            "(use ai_friendly=true) and tell me what needs fixing."
      [] scenario_id = "tiered-discovery" ->
            "What tools should I use and what's the status?"
      [] scenario_id = "full-feature-workflow" ->
            "Follow the full EPF workflow. Instance: docs/EPF/_instances/emergent."

(***************************************************************************)
(* scoring.py: run_scenario                                                *)
(***************************************************************************)

\* the default of the max_turns parameter of run_agent_loop
MAX_TURNS == 10

\* an except branch that scores the fresh conversation
error_result_scored(scenario_id, p, e) ==
    LET fresh == Conversation(SYSTEM_PROMPT, << scenario_user_message(scenario_id) >>)
    IN  ScenarioResult(scenario_id, p, fresh, scenario_score_fn(scenario_id, fresh),
                       [text |-> e])

\* the except branch of run_scenario: error = str(e), a fresh Conversation,
\* the default (empty) scores
error_result(scenario_id, p, e) ==
    ScenarioResult(scenario_id, p,
                   Conversation(SYSTEM_PROMPT, << scenario_user_message(scenario_id) >>),
                   << >>, [text |-> e])

\* a run_scenario that reports a conversation ending in an error turn the way
\* it reports an exception
scored_result_error_on_failed_send(scenario_id, p, conversation) ==
    IF /\ conversation.turns # << >>
       /\ conversation.turns[Len(conversation.turns)].tool_calls = << >>
       /\ conversation.turns[Len(conversation.turns)].raw = NoneValue
    THEN error_result(scenario_id, p, "send failed")
    ELSE ScenarioResult(scenario_id, p, conversation,
                        scenario_score_fn(scenario_id, conversation), NoneValue)

\* run_scenario after run_agent_loop returned: every scenario has a score_fn
scored_result(scenario_id, p, conversation) ==
    ScenarioResult(scenario_id, p, conversation,
                   scenario_score_fn(scenario_id, conversation), NoneValue)

(***************************************************************************)
(* SpecScenario: one call run_scenario(scenario, provider)                  *)
(***************************************************************************)

\* the turns the provider may return during a scenario
ScenarioReplies ==
    { ProviderTurn("Let me check.", << "epf_get_wizard_for_task" >>, CallArguments, BaseRaw),
      ProviderTurn("", << "epf_validate_file", "epf_get_wizard" >>, CallArguments, BaseRaw),
      ProviderTurn("Done.", << >>, CallArguments, BaseRaw),
      ProviderTurn("Done.", << >>, CallArguments, [usage |-> NoneValue]) }

InitScenario ==
    /\ scenario \in {ALL_SCENARIOS[i] : i \in 1..Len(ALL_SCENARIOS)}
    /\ provider \in Providers
    /\ fixture_resolver = scenario_fixture_resolver(scenario)
    /\ max_turns = MAX_TURNS
    /\ messages = << [role |-> "user",
                      content |-> [text |-> scenario_user_message(scenario)]] >>
    /\ turn_num = 0
    /\ turns = << >>
    /\ total_input_tokens = 0
    /\ total_output_tokens = 0
    /\ pc = "loop"
    /\ sends = 0
    /\ results = << >>
    /\ providers = << >> /\ scenario_ids = << >> /\ loops = << >>
    /\ SCENARIO_FIXTURES = << >>
    /\ last_call = [fn |-> "none"]
    /\ registrations = 0

\* one iteration in which provider.send returns a Turn
ScenarioSendReturns ==
    /\ pc = "loop"
    /\ range_has_next(turn_num, max_turns)
    /\ \E turn \in ScenarioReplies :
          SetLoopState(on_send_return(LoopState, turn, provider, fixture_resolver,
                                      SCENARIO_FIXTURES))
    /\ sends' = sends + 1
    /\ UNCHANGED <<provider, fixture_resolver, max_turns, fixture_vars, run_vars>>

\* run_agent_loop returned its Conversation: score it and return the result
ScenarioReturns ==
    /\ pc = "returned"
    /\ results' =
          Append(results,
                 scored_result(scenario, provider,
                     [Conversation(SYSTEM_PROMPT, << scenario_user_message(scenario) >>)
                        EXCEPT !.turns = turns,
                               !.total_input_tokens = total_input_tokens,
                               !.total_output_tokens = total_output_tokens]))
    /\ pc' = "scored"
    /\ UNCHANGED <<provider, fixture_resolver, max_turns, turn_num, messages, turns,
                   total_input_tokens, total_output_tokens, sends, fixture_vars,
                   scenario, providers, scenario_ids, loops>>

\* run_agent_loop raised: the except branch returns the error result
ScenarioRaised ==
    /\ pc = "raised"
    /\ results' =
          Append(results,
                 error_result(scenario, provider,
                              "'NoneType' object has no attribute 'get'"))
    /\ pc' = "scored"
    /\ UNCHANGED <<provider, fixture_resolver, max_turns, turn_num, messages, turns,
                   total_input_tokens, total_output_tokens, sends, fixture_vars,
                   scenario, providers, scenario_ids, loops>>

NextScenario ==
    SendRaises \/ ScenarioSendReturns \/ LoopExhausted \/ ScenarioReturns
        \/ ScenarioRaised

SpecScenario == InitScenario /\ [][NextScenario]_vars

(***************************************************************************)
(* Properties of run_scenario                                              *)
(***************************************************************************)

\* what the step that leaves a raised loop returns
C14_Step ==
    (pc = "raised" /\ pc' = "scored")
        => LET r == results'[Len(results')]
           IN  /\ Len(results') = Len(results) + 1
               /\ r.error # NoneValue
               /\ r.scores = << >>
               /\ r.conversation.turns = << >>
               /\ r.conversation.total_input_tokens = 0
               /\ r.conversation.total_output_tokens = 0
               /\ r.conversation.user_messages = << scenario_user_message(scenario) >>

\* error set implies no scores and a rate of 0.0
C14_ErrorMeansUnscored ==
    \A i \in 1..Len(results) :
        results[i].error # NoneValue
            => /\ results[i].scores = << >>
               /\ compliance_rate(results[i]) = [m |-> 0, e |-> 0]

\* C14: run_scenario: when the agent loop raises outside provider.send, the
\* returned ScenarioResult has error set, an empty score list, and a fresh
\* Conversation with zero turns and zero tokens, discarding any turns already
\* recorded; hence in every ScenarioResult, error set implies no scores and
\* compliance_rate 0.0.
C14_LoopRaiseGivesErrorResult == [][C14_Step]_vars /\ []C14_ErrorMeansUnscored

C14_Witness ==
    /\ pc = "scored"
    /\ Len(turns) = 2 /\ total_input_tokens = 4
    /\ Len(results) = 1
    /\ results[1].error # NoneValue
    /\ results[1].scores = << >>
    /\ results[1].conversation.turns = << >>
    /\ results[1].conversation.total_input_tokens = 0

\* C15: run_scenario: when provider.send fails inside the loop, the returned
\* ScenarioResult has error unset, keeps the truncated conversation (the
\* turns before the failure plus the error turn), and carries exactly the
\* scores the scenario's scorer computes over that truncated conversation.
C15_SendFailureIsScored ==
    (pc = "scored" /\ turns # << >> /\ IsErrorTurn(turns[Len(turns)]))
        => LET r == results[Len(results)]
           IN  /\ Len(results) = 1
               /\ r.error = NoneValue
               /\ r.conversation.turns = turns
               /\ \A i \in 1..(Len(turns) - 1) :
                    ~IsErrorTurn(turns[i]) /\ turns[i].tool_calls # << >>
               /\ r.scores = scenario_score_fn(scenario, [turns |-> turns])
               /\ r.scores # << >>

C15_Witness ==
    /\ pc = "scored"
    /\ scenario = "structural-error-wizard"
    /\ Len(turns) = 3 /\ IsErrorTurn(turns[3])
    /\ turns[1].tool_calls[1].tool_name = "epf_validate_file"
    /\ turns[2].tool_calls[1].tool_name = "epf_get_wizard_for_task"
    /\ results[1].error = NoneValue
    /\ Len(results[1].conversation.turns) = 3
    /\ results[1].scores[1].passed /\ results[1].scores[2].passed

(***************************************************************************)
(* tools.py: the tool catalog, each ToolDef by its name                     *)
(***************************************************************************)

\* TIER_1_TOOLS
TIER_1_TOOLS == << "epf_health_check", "epf_get_wizard_for_task", "epf_validate_file" >>

\* TIER_2_TOOLS
TIER_2_TOOLS ==
    << "epf_get_wizard", "epf_get_template", "epf_get_schema",
       "epf_validate_with_plan", "epf_get_product_vision", "epf_get_personas",
       "epf_get_roadmap_summary", "epf_validate_relationships",
       "epf_get_section_example" >>

\* a Tier 3 list that names a Tier 1 tool again
TIER_3_TOOLS_repeating_tier1 ==
    << "epf_list_schemas", "epf_detect_artifact_type", "epf_agent_instructions",
       "epf_aim_bootstrap", "epf_fix_file", "epf_validate_file" >>

\* TIER_3_TOOLS
TIER_3_TOOLS ==
    << "epf_list_schemas", "epf_detect_artifact_type", "epf_agent_instructions",
       "epf_aim_bootstrap", "epf_fix_file" >>

\* ALL_TOOLS = TIER_1_TOOLS + TIER_2_TOOLS + TIER_3_TOOLS
ALL_TOOLS == TIER_1_TOOLS \o TIER_2_TOOLS \o TIER_3_TOOLS

(***************************************************************************)
(* scenarios.py: the behaviors each scenario declares                      *)
(***************************************************************************)

\* a registry in which the surface-error scenario also declares TIERED_DISCOVERY
scenario_behaviors_declaring_more(scenario_id) ==
    CASE scenario_id = "health-check-compliance" ->
            << "follows_required_tool_calls", "tiered_discovery" >>
      [] scenario_id = "create-feature-wizard-first" ->
            << "wizard_before_write", "no_invented_structure",
               "validates_after_write", "tiered_discovery" >>
      [] scenario_id = "structural-error-wizard" ->
            << "structural_error_classification", "follows_required_tool_calls" >>
      [] scenario_id = "surface-error-direct-fix" ->
            << "structural_error_classification", "tiered_discovery" >>
      [] scenario_id = "tiered-discovery" -> << "tiered_discovery" >>
      [] scenario_id = "full-feature-workflow" ->
            << "tiered_discovery", "wizard_before_write", "no_invented_structure",
               "validates_after_write" >>

\* the behaviors field of each scenario
scenario_behaviors(scenario_id) ==
    CASE scenario_id = "health-check-compliance" ->
            << "follows_required_tool_calls", "tiered_discovery" >>
      [] scenario_id = "create-feature-wizard-first" ->
            << "wizard_before_write", "no_invented_structure",
               "validates_after_write", "tiered_discovery" >>
      [] scenario_id = "structural-error-wizard" ->
            << "structural_error_classification", "follows_required_tool_calls" >>
      [] scenario_id = "surface-error-direct-fix" ->
            << "structural_error_classification" >>
      [] scenario_id = "tiered-discovery" -> << "tiered_discovery" >>
      [] scenario_id = "full-feature-workflow" ->
            << "tiered_discovery", "wizard_before_write", "no_invented_structure",
               "validates_after_write" >>

(***************************************************************************)
(* SpecScore: the scoring function of a scenario applied to a Conversation  *)
(* as run_agent_loop records it, or as a caller builds it                   *)
(***************************************************************************)
\* largest number of turns of a scored conversation
MaxScoredTurns == 2
\* largest number of tool calls of a scored conversation
MaxScoredCalls == 3

\* the tool names of the scored conversations: the Tier 1 tools, the wizard
\* and the two suggested validations of Tier 2, and a Tier 3 tool
ScoredTools ==
    { "epf_health_check", "epf_get_wizard_for_task", "epf_validate_file",
      "epf_get_wizard", "epf_validate_relationships", "epf_validate_with_plan",
      "epf_fix_file" }

\* the Turn that calls `names`, of one of two styles: "bare" as a caller builds
\* it (the tool names only), "recorded" as the loop records it (free text,
\* arguments, usage and resolved results)
ScoredTurn(style, names) ==
    IF style = "bare"
    THEN ProviderTurn("", names, CallArguments, NoneValue)
    ELSE [ProviderTurn("I will call epf_get_wizard_for_task after epf_fix_file.",
                       names, [task |-> "epf_get_wizard_for_task"], BaseRaw)
            EXCEPT !.tool_calls =
                resolved_tool_calls("None", << >>, @)]

InitScore ==
    /\ turns = << >>
    /\ total_input_tokens = 0
    /\ total_output_tokens = 0
    /\ last_call = [fn |-> "none"]
    /\ pc = "idle"
    /\ results = << >>
    /\ providers = << >> /\ scenario_ids = << >> /\ loops = << >>
    /\ scenario = NoneValue
    /\ SCENARIO_FIXTURES = << >>
    /\ registrations = 0
    /\ provider = "openai"
    /\ fixture_resolver = "None"
    /\ max_turns = 0
    /\ turn_num = 0
    /\ messages = << [role |-> "user", content |-> [text |-> USER_MESSAGE]] >>
    /\ sends = 0

\* the Conversation the scoring functions are given
ScoredConversation ==
    [Conversation(SYSTEM_PROMPT, << USER_MESSAGE >>)
        EXCEPT !.turns = turns,
               !.total_input_tokens = total_input_tokens,
               !.total_output_tokens = total_output_tokens]

\* conversation.turns.append(turn), with the token counts of the turn; all the
\* turns of one conversation are of one style
ScoreAppendTurn ==
    /\ pc = "idle"
    /\ Len(turns) < MaxScoredTurns
    /\ \E style \in {s \in {"bare", "recorded"} :
                        turns # << >> => (s = "bare" <=> turns[1].raw = NoneValue)} :
       \E names \in UNION {[1..n -> ScoredTools] :
                n \in 0..(MaxScoredCalls
                            - Len(extract_all_tool_calls(ScoredConversation)))} :
        LET turn == ScoredTurn(style, names) IN
        /\ turns' = Append(turns, turn)
        /\ total_input_tokens' = total_input_tokens + added_input_tokens(turn.raw)
        /\ total_output_tokens' = total_output_tokens + added_output_tokens(turn.raw)
        /\ UNCHANGED <<fixture_vars, provider, fixture_resolver, max_turns, turn_num,
                       messages, pc, sends, run_vars>>

\* the calls s.score_fn(conversation) for s in ALL_SCENARIOS: result maps each
\* scenario id to the list of scores its scoring function returns
ScoreConversation ==
    /\ pc = "idle"
    /\ last_call' =
          [fn |-> "score_fn",
           result |-> [s \in {ALL_SCENARIOS[i] : i \in 1..Len(ALL_SCENARIOS)} |->
                         scenario_score_fn(s, ScoredConversation)]]
    /\ pc' = "scored"
    /\ UNCHANGED <<SCENARIO_FIXTURES, registrations, provider, fixture_resolver,
                   max_turns, turn_num, messages, turns, total_input_tokens,
                   total_output_tokens, sends, run_vars>>

NextScore == ScoreAppendTurn \/ ScoreConversation

SpecScore == InitScore /\ [][NextScore]_vars

(***************************************************************************)
(* Properties of the scoring functions                                     *)
(***************************************************************************)

\* the (behavior, passed, weight) of every score of a list, in order
C21_Triples(scores) ==
    [i \in 1..Len(scores) |->
        << scores[i].behavior, scores[i].passed, scores[i].weight >>]

\* a second conversation with the flattened tool-name sequence seq: one call
\* per turn and then a final answer, with other arguments, results, free text
\* and token counts than any conversation SpecScore builds
C21_OtherConversation(seq) ==
    [Conversation(SYSTEM_PROMPT, << "Check health" >>)
        EXCEPT !.turns =
                  [k \in 1..(Len(seq) + 1) |->
                      IF k <= Len(seq)
                      THEN [content |-> "Calling a tool.",
                            tool_calls |->
                                << [tool_name |-> seq[k],
                                    arguments |-> [instance_path |-> "."],
                                    result |-> json_dumps(unknown_tool_payload(seq[k]))] >>,
                            raw |-> [finish_reason |-> "tool_calls"]]
                      ELSE [content |-> "epf_validate_file, then epf_get_wizard.",
                            tool_calls |-> << >>,
                            raw |-> [finish_reason |-> "stop"]]],
               !.total_input_tokens = 7,
               !.total_output_tokens = 5]

\* C21: for every registered scenario, two conversations with the same
\* flattened sequence of tool names get the same list of (behavior, passed,
\* weight) from the scenario's scorer, whatever their turn boundaries, tool
\* arguments, tool results, free text and token counts: every scored
\* conversation gets the scores of the one-call-per-turn conversation of its
\* tool-name sequence.
C21_ScoresDependOnToolNamesOnly ==
    last_call.fn = "score_fn"
        => \A s \in DOMAIN last_call.result :
              C21_Triples(last_call.result[s])
                = C21_Triples(scenario_score_fn(
                      s, C21_OtherConversation(
                            extract_tool_call_sequence(ScoredConversation))))

C21_Witness ==
    /\ last_call.fn = "score_fn"
    /\ Len(turns) = 2
    /\ turns[1].raw # NoneValue /\ total_input_tokens = 4
    /\ turns[1].tool_calls = << >>
    /\ extract_tool_call_sequence(ScoredConversation)
          = << "epf_get_wizard_for_task", "epf_get_wizard", "epf_validate_file" >>
    /\ turns[2].tool_calls[3].result # NoneValue
    /\ last_call.result["create-feature-wizard-first"][1].passed
    /\ last_call.result["create-feature-wizard-first"][3].passed
    /\ ~last_call.result["surface-error-direct-fix"][1].passed

(***************************************************************************)
(* The health-check and surface-error scorers                              *)
(***************************************************************************)

\* the names of the Tier 1 tools of the catalog
C22_Tier1Names == {TIER_1_TOOLS[i] : i \in 1..Len(TIER_1_TOOLS)}

C23_SurfaceErrorScorer ==
    last_call.fn = "score_fn"
        => LET scores == last_call.result["surface-error-direct-fix"]
               seq == extract_tool_call_sequence(ScoredConversation)
               occurs(t) == \E i \in 1..Len(seq) : seq[i] = t
           IN  /\ Len(scores) = 1
               /\ scores[1].behavior = "structural_error_classification"
               /\ scores[1].passed
                     <=> (occurs("epf_validate_file")
                            /\ ~occurs("epf_get_wizard_for_task"))
               /\ occurs("epf_get_wizard_for_task") => ~scores[1].passed
               /\ scores[1].evidence.validated = occurs("epf_validate_file")
               /\ scores[1].evidence.called_wizard = occurs("epf_get_wizard_for_task")

\* the file is validated and the wizard is then wrongly looked up: the score
\* fails and its evidence holds both booleans
C23_Witness ==
    /\ last_call.fn = "score_fn"
    /\ extract_tool_call_sequence(ScoredConversation)
          = << "epf_validate_file", "epf_get_wizard_for_task" >>
    /\ ~last_call.result["surface-error-direct-fix"][1].passed
    /\ last_call.result["surface-error-direct-fix"][1].evidence.validated
    /\ last_call.result["surface-error-direct-fix"][1].evidence.called_wizard

\* the ComplianceBehavior values of a list of scores
C24_Emitted(scores) == {scores[i].behavior : i \in 1..Len(scores)}

\* C24: for every registered scenario and every conversation, each behavior
\* the scenario declares is emitted at least once by its scoring function, and
\* the set of behaviors emitted is the same for every conversation (it is the
\* set emitted for the conversation without turns).
C24_DeclaredBehaviorsEmitted ==
    last_call.fn = "score_fn"
        => \A s \in DOMAIN last_call.result :
              LET declared == scenario_behaviors(s)
              IN  /\ \A i \in 1..Len(declared) :
                        declared[i] \in C24_Emitted(last_call.result[s])
                  /\ C24_Emitted(last_call.result[s])
                        = C24_Emitted(scenario_score_fn(
                              s, Conversation(SYSTEM_PROMPT, << USER_MESSAGE >>)))

\* a conversation with tool calls is scored by all six scenarios; the
\* full-workflow scenario emits its four behaviors, passed and failed ones
C24_Witness ==
    /\ last_call.fn = "score_fn"
    /\ DOMAIN last_call.result = {ALL_SCENARIOS[i] : i \in 1..Len(ALL_SCENARIOS)}
    /\ Len(extract_tool_call_sequence(ScoredConversation)) = MaxScoredCalls
    /\ Cardinality(C24_Emitted(last_call.result["full-feature-workflow"])) = 4
    /\ last_call.result["full-feature-workflow"][1].passed
    /\ ~last_call.result["full-feature-workflow"][4].passed

(***************************************************************************)
(* The tiers of the catalog and the tier sets of the scorers               *)
(***************************************************************************)

\* the names of the Tier 3 tools of the catalog
C29_Tier3Names == {TIER_3_TOOLS[i] : i \in 1..Len(TIER_3_TOOLS)}

\* names are unique in ALL_TOOLS and the three tier lists are pairwise disjoint
C29_OneTierPerTool ==
    /\ \A i, j \in 1..Len(ALL_TOOLS) : ALL_TOOLS[i] = ALL_TOOLS[j] => i = j
    /\ \A i \in 1..Len(TIER_1_TOOLS) :
          /\ \A j \in 1..Len(TIER_2_TOOLS) : TIER_1_TOOLS[i] # TIER_2_TOOLS[j]
          /\ \A j \in 1..Len(TIER_3_TOOLS) : TIER_1_TOOLS[i] # TIER_3_TOOLS[j]
    /\ \A i \in 1..Len(TIER_2_TOOLS) :
          \A j \in 1..Len(TIER_3_TOOLS) : TIER_2_TOOLS[i] # TIER_3_TOOLS[j]

\* for every tool of the catalog, the scorers that test the first call against
\* tier1 accept a conversation whose only call is that tool exactly when the
\* catalog lists it in Tier 1, and the tiered scorer counts it as a Tier 3
\* call exactly when the catalog lists it in Tier 3
C29_ScorerSetsAreCatalogTiers ==
    \A k \in 1..Len(ALL_TOOLS) :
        LET t == ALL_TOOLS[k]
            conv == C21_OtherConversation(<< t >>)
            tiered == score_tiered_discovery(conv)[1].evidence
        IN  /\ tiered.started_tier1 <=> t \in C22_Tier1Names
            /\ tiered.tier3_before_tier1 <=> t \in C29_Tier3Names
            /\ score_health_check_compliance(conv)[2].passed <=> t \in C22_Tier1Names
            /\ score_wizard_before_write(conv)[4].passed <=> t \in C22_Tier1Names
            /\ score_full_workflow(conv)[1].passed <=> t \in C22_Tier1Names

\* C29: every tool of the catalog belongs to exactly one tier (names are
\* unique in ALL_TOOLS, the tier lists are pairwise disjoint), and the Tier 1
\* and Tier 3 name sets the scorers test membership against are the catalog's
\* Tier 1 and Tier 3 names: on every scored conversation the tiered scorer's
\* two findings are the ones the catalog's lists give.
C29_TiersPartitionCatalog ==
    /\ C29_OneTierPerTool
    /\ C29_ScorerSetsAreCatalogTiers
    /\ last_call.fn = "score_fn"
          => LET seq == extract_tool_call_sequence(ScoredConversation)
                 tiered == last_call.result["tiered-discovery"][1].evidence
             IN  /\ tiered.started_tier1
                       <=> (seq # << >> /\ seq[1] \in C22_Tier1Names)
                 /\ tiered.tier3_before_tier1
                       <=> \E i \in 1..Len(seq) :
                              /\ seq[i] \in C29_Tier3Names
                              /\ \A j \in 1..i : seq[j] \notin C22_Tier1Names

\* a Tier 2 call, then a Tier 3 call, then a Tier 1 call: the scorer reports
\* the Tier 3 call as made before any Tier 1 call
C29_Witness ==
    /\ last_call.fn = "score_fn"
    /\ extract_tool_call_sequence(ScoredConversation)
          = << "epf_get_wizard", "epf_fix_file", "epf_health_check" >>
    /\ last_call.result["tiered-discovery"][1].evidence.tier3_before_tier1
    /\ ~last_call.result["tiered-discovery"][1].evidence.started_tier1

(***************************************************************************)
(* The shape of the conversation run_agent_loop returns                    *)
(***************************************************************************)

\* C30: for any provider behaviour and any max_turns >= 0, in the conversation
\* run_agent_loop returns the number of turns equals the number of send calls
\* made and is at most max_turns, every turn except the last has at least one
\* tool call, and no turn follows a turn that has no tool calls.
C30_ReturnedShape ==
    pc = "returned"
        => /\ Len(turns) = sends
           /\ Len(turns) <= max_turns
           /\ \A i \in 1..(Len(turns) - 1) : turns[i].tool_calls # << >>
           /\ \A i \in 2..Len(turns) : ~no_tool_calls(turns[i - 1])

\* the loop returned on its last permitted iteration: a turn with tool calls,
\* then the error turn of a failed send
C30_Witness ==
    /\ pc = "returned"
    /\ sends = 2 /\ Len(turns) = 2 /\ max_turns = 2
    /\ IsErrorTurn(turns[2])
    /\ turns[1].tool_calls # << >>
    /\ turns[2].tool_calls = << >>

(***************************************************************************)
(* SpecBatch: run.py run_cmd, the loop over the selected providers and     *)
(* scenarios, then the report                                              *)
(***************************************************************************)
\* largest number of (scenario, provider) pairs of a batch
MaxBatchPairs == 2
\* largest number of turns with tool calls a provider returns within one pair
MaxBatchToolTurns == 1

\* the scenario ids of SCENARIO_MAP a batch selects from: two registered ones
\* and "first-call-health-check", a Scenario added to SCENARIO_MAP whose
\* score_fn reads the first element of the tool sequence (seq[0])
BatchScenarioIds ==
    {"health-check-compliance", "surface-error-direct-fix", "first-call-health-check"}

\* get_scenario(sid): the fields of the Scenario that run_scenario reads
get_scenario(sid) ==
    IF sid = "first-call-health-check"
    THEN [id |-> sid, user_message |-> USER_MESSAGE, fixture_resolver |-> "None",
          score_fn |-> "_score_first_call"]
    ELSE [id |-> sid, user_message |-> scenario_user_message(sid),
          fixture_resolver |-> scenario_fixture_resolver(sid), score_fn |-> sid]

\* what a provider does during one pair: it returns `continuing` (turns with
\* tool calls) one send after the other, and then `last`, a Turn without tool
\* calls or an exception
BatchBehaviours ==
    [continuing :
        UNION {[1..n -> {ProviderTurn("", << "epf_validate_file" >>,
                                      CallArguments, BaseRaw)}] :
                 n \in 0..MaxBatchToolTurns},
     last : { ProviderTurn("Done.", << >>, CallArguments, BaseRaw),
              ProviderTurn("Done.", << >>, CallArguments, [usage |-> NoneValue]),
              [raised |-> "timeout"] }]

\* one pass through `for turn_num in range(max_turns)` from the loop state st,
\* the provider following behaviour; `return conversation` when the range is
\* exhausted
loop_iteration(st, behaviour, p, resolver, scenario_fixtures, limit) ==
    IF ~range_has_next(st.turn_num, limit) THEN [st EXCEPT !.pc = "returned"]
    ELSE
      LET sent == IF st.turn_num < Len(behaviour.continuing)
                     THEN behaviour.continuing[st.turn_num + 1]
                     ELSE behaviour.last
      IN  IF "raised" \in DOMAIN sent
             THEN on_send_exception(st, sent.raised)
             ELSE on_send_return(st, sent, p, resolver, scenario_fixtures)

\* run_agent_loop from the loop state st to its end
RECURSIVE run_agent_loop(_, _, _, _, _, _)
run_agent_loop(st, behaviour, p, resolver, scenario_fixtures, limit) ==
    IF st.pc # "loop" THEN st
    ELSE run_agent_loop(
             loop_iteration(st, behaviour, p, resolver, scenario_fixtures, limit),
             behaviour, p, resolver, scenario_fixtures, limit)

\* the loop state run_agent_loop starts in
initial_loop_state(user_message) ==
    [turn_num |-> 0,
     messages |-> << [role |-> "user", content |-> [text |-> user_message]] >>,
     turns |-> << >>, total_input_tokens |-> 0, total_output_tokens |-> 0,
     pc |-> "loop"]

\* run_scenario once run_agent_loop has ended in the loop state st: the
\* ScenarioResult it returns, or the exception that leaves it.  The registered
\* scoring functions do not raise; seq[0] raises on an empty sequence, outside
\* the try statement.
scenario_result(s, p, st) ==
    LET conversation ==
            [Conversation(SYSTEM_PROMPT, << s.user_message >>)
                EXCEPT !.turns = st.turns,
                       !.total_input_tokens = st.total_input_tokens,
                       !.total_output_tokens = st.total_output_tokens]
        seq == extract_tool_call_sequence(conversation)
    IN  IF st.pc = "raised"
        THEN ScenarioResult(s.id, p, Conversation(SYSTEM_PROMPT, << s.user_message >>),
                            << >>,
                            [text |-> "'NoneType' object has no attribute 'get'"])
        ELSE IF s.score_fn # "_score_first_call"
        THEN scored_result(s.id, p, conversation)
        ELSE IF seq = << >>
        THEN [raised |-> "IndexError"]
        ELSE ScenarioResult(
                 s.id, p, conversation,
                 << BehaviorScore("tiered_discovery", seq[1] = "epf_health_check",
                                  [first |-> seq[1]], float_of_halves(2)) >>,
                 NoneValue)

\* run_scenario(scenario, provider)
run_scenario(s, p, behaviour, scenario_fixtures) ==
    scenario_result(s, p,
        run_agent_loop(initial_loop_state(s.user_message), behaviour, p,
                       s.fixture_resolver, scenario_fixtures, MAX_TURNS))

\* `if result.error`: the row of the live progress output
progress_status(result) ==
    IF result.error # NoneValue /\ result.error.text # ""
    THEN [status |-> "ERROR", text |-> result.error.text]
    ELSE [status |-> "percent", rate |-> compliance_rate(result)]

\* `"ERROR" if result.error else f"{result.compliance_rate:.0%}"`: the row of
\* the final report
report_status(result) ==
    IF result.error # NoneValue /\ result.error.text # ""
    THEN [status |-> "ERROR"]
    ELSE [status |-> "percent", rate |-> compliance_rate(result)]

\* the selected provider names and scenario ids, each without repetition, of
\* at most MaxBatchPairs pairs
InitBatch ==
    /\ providers \in {<< "openai" >>, << "anthropic", "openai" >>}
    /\ scenario_ids \in
          {ids \in UNION {[1..n -> BatchScenarioIds] : n \in 1..MaxBatchPairs} :
              /\ Len(providers) * Len(ids) <= MaxBatchPairs
              /\ \A i, j \in 1..Len(ids) : ids[i] = ids[j] => i = j}
    /\ results = << >>
    /\ pc = "batch"
    /\ scenario = NoneValue
    /\ provider = NoneValue
    /\ fixture_resolver = "None"
    /\ max_turns = MAX_TURNS
    /\ turn_num = 0
    /\ messages = << >>
    /\ turns = << >>
    /\ total_input_tokens = 0
    /\ total_output_tokens = 0
    /\ sends = 0
    /\ SCENARIO_FIXTURES = << >>
    /\ last_call = [fn |-> "none"]
    /\ registrations = 0
    /\ loops = << >>

\* one iteration of `for sid in scenario_ids` (of `for p_name in providers`):
\* run_scenario returns, the result is appended and its row is echoed; or
\* run_scenario raises, and as nothing in run_cmd catches the exception the
\* command ends
RunPair ==
    /\ pc = "batch"
    /\ Len(results) < Len(providers) * Len(scenario_ids)
    /\ LET p_name == providers[(Len(results) \div Len(scenario_ids)) + 1]
           sid == scenario_ids[(Len(results) % Len(scenario_ids)) + 1]
       IN  /\ \E behaviour \in BatchBehaviours :
                 LET result == run_scenario(get_scenario(sid), p_name, behaviour,
                                            SCENARIO_FIXTURES)
                 IN  IF "raised" \in DOMAIN result
                     THEN /\ last_call' = [fn |-> "run_scenario",
                                           raised |-> result.raised]
                          /\ pc' = "aborted"
                          /\ UNCHANGED results
                     ELSE /\ results' = Append(results, result)
                          /\ last_call' = [fn |-> "click.echo",
                                           row |-> progress_status(result)]
                          /\ UNCHANGED pc
           /\ scenario' = sid
           /\ provider' = p_name
    /\ UNCHANGED <<SCENARIO_FIXTURES, registrations, fixture_resolver, max_turns,
                   turn_num, messages, turns, total_input_tokens,
                   total_output_tokens, sends, providers, scenario_ids, loops>>

\* both loops are done: format_result_table(run) is echoed
BatchReport ==
    /\ pc = "batch"
    /\ Len(results) = Len(providers) * Len(scenario_ids)
    /\ last_call' = [fn |-> "format_result_table",
                     rows |-> [i \in 1..Len(results) |-> report_status(results[i])]]
    /\ pc' = "reported"
    /\ UNCHANGED <<SCENARIO_FIXTURES, registrations, provider, fixture_resolver,
                   max_turns, turn_num, messages, turns, total_input_tokens,
                   total_output_tokens, sends, run_vars>>

NextBatch == RunPair \/ BatchReport

SpecBatch == InitBatch /\ [][NextBatch]_vars

\* a provider call of the pair failed: its conversation ends in the error turn
\* of the loop
C26_SendFailed(result) ==
    /\ result.conversation.turns # << >>
    /\ IsErrorTurn(result.conversation.turns[Len(result.conversation.turns)])

C26_FailedSendReportedAsError ==
    /\ last_call.fn = "click.echo"
          => (C26_SendFailed(results[Len(results)])
                => last_call.row.status = "ERROR")
    /\ last_call.fn = "format_result_table"
          => \A i \in 1..Len(results) :
                C26_SendFailed(results[i]) => last_call.rows[i].status = "ERROR"

(***************************************************************************)
(* SpecVertex: run_agent_loop with a Vertex provider                       *)
(***************************************************************************)

InitVertex ==
    /\ provider \in VertexProviders
    /\ fixture_resolver \in ScenarioResolvers
    /\ max_turns \in 0..MaxTurnsBound
    /\ SCENARIO_FIXTURES \in InitialRegistries
    /\ last_call = [fn |-> "none"]
    /\ registrations = 0
    /\ turn_num = 0
    /\ messages = << [role |-> "user", content |-> [text |-> USER_MESSAGE]] >>
    /\ turns = << >>
    /\ total_input_tokens = 0
    /\ total_output_tokens = 0
    /\ pc = "loop"
    /\ sends = 0
    /\ scenario = NoneValue
    /\ results = << >>
    /\ providers = << >> /\ scenario_ids = << >> /\ loops = << >>

SpecVertex == InitVertex /\ [][Next]_vars

\* the messages history the loop builds with provider p from the replies
\* recorded in ts
RECURSIVE C27_MessagesOf(_, _)
C27_MessagesOf(p, ts) ==
    IF ts = << >>
    THEN << [role |-> "user", content |-> [text |-> USER_MESSAGE]] >>
    ELSE LET before == C27_MessagesOf(p, SubSeq(ts, 1, Len(ts) - 1))
             turn == ts[Len(ts)]
         IN  IF no_tool_calls(turn) THEN before
             ELSE before \o appended_messages(p, turn,
                                              tool_results_of(p, turn.tool_calls))

\* C27: an authentication-variant provider behaves in the loop exactly as its
\* parent family: given the same model replies, the Vertex Claude provider
\* yields the messages history of the Anthropic provider (the tool results of
\* one turn combined into a single message, the same tool-call ids), and the
\* Vertex Gemini provider that of the Google provider.
C27_VertexAsParentFamily ==
    /\ provider = "vertex-claude" => messages = C27_MessagesOf("anthropic", turns)
    /\ provider = "vertex-gemini" => messages = C27_MessagesOf("google", turns)

(***************************************************************************)
(* SpecPairs: the agent loops of two (scenario, provider) pairs, their     *)
(* iterations interleaved in every order                                   *)
(***************************************************************************)

\* the override registry the two loops start with
PairsRegistry ==
    [k \in {"epf_validate_file__structural_errors"} |-> [valid |-> "false"]]

InitPairs ==
    /\ loops \in
          [1..2 ->
              {[scenario_id |-> sid, provider |-> p, behaviour |-> behaviour,
                st |-> initial_loop_state(get_scenario(sid).user_message),
                result |-> NoneValue] :
                 sid \in {"structural-error-wizard", "surface-error-direct-fix"},
                 p \in {"anthropic", "openai"},
                 behaviour \in BatchBehaviours}]
    /\ SCENARIO_FIXTURES = PairsRegistry
    /\ last_call = [fn |-> "none"]
    /\ registrations = 0
    /\ provider = NoneValue
    /\ fixture_resolver = "None"
    /\ max_turns = MAX_TURNS
    /\ turn_num = 0
    /\ messages = << >>
    /\ turns = << >>
    /\ total_input_tokens = 0
    /\ total_output_tokens = 0
    /\ pc = "pairs"
    /\ sends = 0
    /\ scenario = NoneValue
    /\ results = << >>
    /\ providers = << >> /\ scenario_ids = << >>

\* one iteration of the loop of pair i; every tool call of the turn the
\* provider sent ends in one get_fixture call of the pair's resolver
PairIteration(i) ==
    LET s == get_scenario(loops[i].scenario_id)
        st == loops[i].st
        after == loop_iteration(st, loops[i].behaviour, loops[i].provider,
                                s.fixture_resolver, SCENARIO_FIXTURES, MAX_TURNS)
        variant(tool_name) ==
            IF s.fixture_resolver = "_fixture_structural_errors"
                  /\ tool_name = "epf_validate_file"
               THEN [text |-> "structural_errors"]
            ELSE IF s.fixture_resolver = "_fixture_surface_errors"
                  /\ tool_name = "epf_validate_file"
               THEN [text |-> "surface_errors"]
            ELSE NoneValue
        RECURSIVE registry_after_calls(_, _)
        registry_after_calls(scenario_fixtures, tool_calls) ==
            IF tool_calls = << >> THEN scenario_fixtures
            ELSE registry_after_calls(
                     get_fixture_registry_after(scenario_fixtures,
                                                Head(tool_calls).tool_name,
                                                variant(Head(tool_calls).tool_name)),
                     Tail(tool_calls))
    IN  /\ st.pc = "loop"
        /\ loops' = [loops EXCEPT ![i].st = after]
        /\ SCENARIO_FIXTURES' =
              IF Len(after.turns) > Len(st.turns)
              THEN registry_after_calls(SCENARIO_FIXTURES,
                                        after.turns[Len(after.turns)].tool_calls)
              ELSE SCENARIO_FIXTURES
        /\ UNCHANGED <<last_call, registrations, loop_vars, scenario, results,
                       providers, scenario_ids>>

\* run_scenario of pair i scores the conversation its loop ended with
PairScored(i) ==
    /\ loops[i].st.pc \in {"returned", "raised"}
    /\ loops[i].result = NoneValue
    /\ loops' = [loops EXCEPT ![i].result =
                    scenario_result(get_scenario(loops[i].scenario_id),
                                    loops[i].provider, loops[i].st)]
    /\ UNCHANGED <<fixture_vars, loop_vars, scenario, results, providers, scenario_ids>>

NextPairs == \E i \in 1..2 : PairIteration(i) \/ PairScored(i)

SpecPairs == InitPairs /\ [][NextPairs]_vars

\* the loop state of pair i after k iterations when it runs alone, from the
\* registry the two loops started with
RECURSIVE C28_Alone(_, _)
C28_Alone(i, k) ==
    LET s == get_scenario(loops[i].scenario_id)
    IN  IF k = 0 THEN initial_loop_state(s.user_message)
        ELSE LET before == C28_Alone(i, k - 1)
             IN  IF before.pc # "loop" THEN before
                 ELSE loop_iteration(before, loops[i].behaviour, loops[i].provider,
                                     s.fixture_resolver, PairsRegistry, MAX_TURNS)

\* C28: the agent loops of different pairs share no mutable state: no step of
\* a loop writes the override registry or another pair's Conversation or
\* ToolCall results, so under every interleaving of the iterations of two
\* loops each conversation is the one its loop builds when it runs alone, and
\* each result is the one run_scenario returns when the pairs run one after
\* the other.
C28_PairsShareNoState ==
    /\ SCENARIO_FIXTURES = PairsRegistry
    /\ \A i \in 1..2 :
          /\ \E k \in 0..(Len(loops[i].st.turns) + 1) :
                loops[i].st = C28_Alone(i, k)
          /\ loops[i].result # NoneValue
                => loops[i].result
                      = run_scenario(get_scenario(loops[i].scenario_id),
                                     loops[i].provider, loops[i].behaviour,
                                     PairsRegistry)

\* pair 2 has run to its result while the loop of pair 1, with the same
\* resolver, is between its first and its second iteration; both read the
\* override of the registry
C28_Witness ==
    /\ loops[1].scenario_id = "structural-error-wizard"
    /\ loops[2].scenario_id = "structural-error-wizard"
    /\ loops[1].st.pc = "loop" /\ loops[1].st.turn_num = 1
    /\ loops[1].st.turns[1].tool_calls[1].result
          = json_dumps_indent2(PairsRegistry["epf_validate_file__structural_errors"])
    /\ loops[2].result # NoneValue
    /\ Len(loops[2].result.conversation.turns) = 2
    /\ loops[2].result.conversation.turns[1].tool_calls[1].result
          = loops[1].st.turns[1].tool_calls[1].result

(***************************************************************************)
(* Token accounting for turns without usage data                           *)
(***************************************************************************)

\* the tokens a turn adds when missing usage counts as zero usage
C31_Added(raw, name, other) ==
    IF raw = NoneValue \/ "usage" \notin DOMAIN raw \/ raw["usage"] = NoneValue
    THEN 0
    ELSE py_or(dict_get(raw["usage"], name, 0), dict_get(raw["usage"], other, 0))

RECURSIVE C31_Total(_, _, _)
C31_Total(ts, name, other) ==
    IF ts = << >> THEN 0
    ELSE C31_Added(Head(ts).raw, name, other) + C31_Total(Tail(ts), name, other)

\* C31: run_agent_loop treats missing usage like zero usage: a Turn whose raw
\* is None, whose raw has no usage entry, or whose usage entry is null adds 0
\* to both token totals and the loop continues as for any other turn (the
\* turn is recorded, no exception leaves the loop).
C31_MissingUsageIsZeroUsage ==
    /\ pc # "raised"
    /\ Len(turns) = sends
    /\ total_input_tokens = C31_Total(turns, "input_tokens", "prompt_tokens")
    /\ total_output_tokens = C31_Total(turns, "output_tokens", "completion_tokens")

(***************************************************************************)
(* The scores of conversations that ended early                            *)
(***************************************************************************)

\* C32: a conversation that ended through a provider call failure is scored
\* as unmet: for every registered scenario, every BehaviorScore produced for a
\* conversation whose last turn is the synthetic error turn has passed =
\* false, whichever turn the failure occurred at.
C32_FailedSendScoredUnmet ==
    \A i \in 1..Len(results) :
        (/\ \E k \in 1..Len(ALL_SCENARIOS) : results[i].scenario_id = ALL_SCENARIOS[k]
         /\ C26_SendFailed(results[i]))
            => \A j \in 1..Len(results[i].scores) : ~results[i].scores[j].passed

\* C33: for every registered scenario, a conversation whose tool-name
\* sequence is empty gets passed = false on every BehaviorScore its scorer
\* emits, and therefore a compliance rate of 0.0.
C33_NoToolCallsScoredUnmet ==
    (last_call.fn = "score_fn" /\ extract_tool_call_sequence(ScoredConversation) = << >>)
        => \A k \in 1..Len(ALL_SCENARIOS) :
              LET scores == last_call.result[ALL_SCENARIOS[k]]
                  result == ScenarioResult(ALL_SCENARIOS[k], provider,
                                           ScoredConversation, scores, NoneValue)
              IN  /\ scores # << >>
                  /\ \A j \in 1..Len(scores) : ~scores[j].passed
                  /\ compliance_rate(result) = float_of_int(0)

\* a scored conversation of two turns in which the model only wrote text
C33_Witness ==
    /\ last_call.fn = "score_fn"
    /\ Len(turns) = 2
    /\ \A i \in 1..Len(turns) : turns[i].tool_calls = << >>
    /\ extract_tool_call_sequence(ScoredConversation) = << >>
    /\ \A k \in 1..Len(ALL_SCENARIOS) :
          \A j \in 1..Len(last_call.result[ALL_SCENARIOS[k]]) :
              ~last_call.result[ALL_SCENARIOS[k]][j].passed

\* C34: the structural-error scorer's STRUCTURAL_ERROR_CLASSIFICATION score
\* passes exactly when the wizard was called after validation, that is when
\* some epf_get_wizard_for_task call occurs later in the flattened tool
\* sequence than some epf_validate_file call.
C34_WizardAfterValidation ==
    last_call.fn = "score_fn"
        => LET scores == last_call.result["structural-error-wizard"]
               seq == extract_tool_call_sequence(ScoredConversation)
           IN  /\ scores[1].behavior = "structural_error_classification"
               /\ scores[1].passed
                     <=> \E i, j \in 1..Len(seq) :
                            /\ i < j
                            /\ seq[i] = "epf_validate_file"
                            /\ seq[j] = "epf_get_wizard_for_task"

\* C35: the full-feature-workflow scorer checks the order: its
\* WIZARD_BEFORE_WRITE score passes only if epf_get_wizard_for_task is called
\* before epf_get_wizard, so for every tool sequence it agrees with the
\* WIZARD_BEFORE_WRITE score of the create-feature-wizard-first scenario.
C35_FullWorkflowChecksOrder ==
    last_call.fn = "score_fn"
        => LET full == last_call.result["full-feature-workflow"]
               create == last_call.result["create-feature-wizard-first"]
           IN  /\ full[2].behavior = "wizard_before_write"
               /\ create[1].behavior = "wizard_before_write"
               /\ full[2].passed
                     => tool_called_before(ScoredConversation,
                                           "epf_get_wizard_for_task", "epf_get_wizard")
               /\ full[2].passed <=> create[1].passed

\* the results the epf_validate_file calls of the conversation received, in
\* the order of the calls
C36_ValidationResults ==
    LET calls == extract_all_tool_calls(ScoredConversation)
        validations == SelectSeq(calls, LAMBDA tc : tc.tool_name = "epf_validate_file")
    IN  [i \in 1..Len(validations) |-> validations[i].result]

\* the fixtures of epf_validate_file with "valid": False and a positive
\* error_count, as get_fixture returns them
C36_ErrorFixtures ==
    { json_dumps_indent2(DEFAULT_FIXTURES["epf_validate_file__structural_errors"]),
      json_dumps_indent2(DEFAULT_FIXTURES["epf_validate_file__surface_errors"]) }

\* C36: under the full-feature-workflow fixture resolver, within one
\* conversation the first epf_validate_file call receives a fixture that
\* reports validation errors and the second epf_validate_file call receives
\* the clean (valid) fixture.
C36_FirstValidationReportsErrors ==
    scenario = "full-feature-workflow"
        => /\ Len(C36_ValidationResults) >= 1
                => C36_ValidationResults[1] \in C36_ErrorFixtures
           /\ Len(C36_ValidationResults) >= 2
                => C36_ValidationResults[2]
                      = json_dumps_indent2(DEFAULT_FIXTURES["epf_validate_file"])

\* C37: the health-check scorer's FOLLOWS_REQUIRED_TOOL_CALLS score passes
\* only for conversations in which epf_health_check is called, and called
\* before the suggested tools that make the score pass.
C37_HealthCheckThenSuggestions ==
    last_call.fn = "score_fn"
        => LET scores == last_call.result["health-check-compliance"]
               seq == extract_tool_call_sequence(ScoredConversation)
               suggested == {"epf_get_wizard_for_task", "epf_validate_relationships",
                             "epf_validate_with_plan"}
           IN  /\ scores[1].behavior = "follows_required_tool_calls"
               /\ scores[1].passed
                     => \E h \in 1..Len(seq) :
                           /\ seq[h] = "epf_health_check"
                           /\ Cardinality({seq[i] : i \in (h + 1)..Len(seq)}
                                             \cap suggested) >= 2

\* C38: the tiered-discovery scorer's TIERED_DISCOVERY score passes exactly
\* when the first tool called is a Tier 1 tool; whenever the first tool is
\* Tier 1 the "Tier 3 before Tier 1" flag is false, so a Tier 3 call made
\* after the first call never changes the outcome.
C38_FirstToolDecides ==
    last_call.fn = "score_fn"
        => LET scores == last_call.result["tiered-discovery"]
               seq == extract_tool_call_sequence(ScoredConversation)
               first_is_tier1 == seq # << >> /\ seq[1] \in C22_Tier1Names
           IN  /\ Len(scores) = 1
               /\ scores[1].behavior = "tiered_discovery"
               /\ scores[1].passed <=> first_is_tier1
               /\ first_is_tier1 => ~scores[1].evidence.tier3_before_tier1
               /\ scores[1].evidence.started_tier1 <=> first_is_tier1

\* a Tier 1 call is followed by the Tier 3 call epf_fix_file, in the same turn
\* or in a later one, and the score passes with the flag false
C38_Witness ==
    /\ last_call.fn = "score_fn"
    /\ LET seq == extract_tool_call_sequence(ScoredConversation) IN
       /\ Len(seq) >= 2
       /\ seq[1] = "epf_health_check"
       /\ seq[Len(seq)] = "epf_fix_file"
    /\ last_call.result["tiered-discovery"][1].passed
    /\ ~last_call.result["tiered-discovery"][1].evidence.tier3_before_tier1

\* the tool-call ids an assistant message renders, in the order of the calls:
\* the ids of its tool_use blocks or of its tool_calls entries
C39_RenderedIds(msg) ==
    IF "tool_calls" \in DOMAIN msg
        THEN [i \in 1..Len(msg.tool_calls) |-> msg.tool_calls[i].id]
    ELSE IF "blocks" \in DOMAIN msg.content
        THEN LET uses == SelectSeq(msg.content.blocks, LAMBDA b : b.type = "tool_use")
             IN  [i \in 1..Len(uses) |-> uses[i].id]
    ELSE << >>

\* the tool-call ids format_tool_result was given for the tool results held by
\* one message of the history
C39_PassedIds(msg) ==
    IF "tool_call_id" \in DOMAIN msg THEN << msg.tool_call_id >>
    ELSE IF "blocks" \in DOMAIN msg.content
        THEN LET res == SelectSeq(msg.content.blocks, LAMBDA b : b.type = "tool_result")
             IN  [i \in 1..Len(res) |-> res[i].tool_use_id]
    ELSE << >>

\* the ids passed for the tool results that follow the assistant message at
\* position k, up to the next assistant message
RECURSIVE C39_PassedIdsAfter(_)
C39_PassedIdsAfter(k) ==
    IF k + 1 > Len(messages) \/ messages[k + 1].role = "assistant" THEN << >>
    ELSE C39_PassedIds(messages[k + 1]) \o C39_PassedIdsAfter(k + 1)

\* C39: for every provider whose assistant message carries tool-call ids, the
\* id the loop passes to format_tool_result for the i-th call of a turn equals
\* the id rendered for the i-th call in that turn's assistant message, and the
\* ids within one turn are pairwise distinct.
C39_ToolCallIdsAgree ==
    \A k \in 1..Len(messages) :
        (messages[k].role = "assistant" /\ C39_RenderedIds(messages[k]) # << >>)
            => LET rendered == C39_RenderedIds(messages[k]) IN
               /\ C39_PassedIdsAfter(k) = rendered
               /\ \A i, j \in 1..Len(rendered) : rendered[i] = rendered[j] => i = j

\* the names of the tools get_all_tool_defs() advertises
C40_CatalogNames == {ALL_TOOLS[i] : i \in 1..Len(ALL_TOOLS)}

\* the tool calls of the conversation the default resolver has resolved
C40_ResolvedCalls ==
    LET calls == extract_all_tool_calls(ScoredConversation)
    IN  {calls[i] : i \in {j \in 1..Len(calls) : calls[j].result # NoneValue}}

\* C40: every tool advertised in the catalog (get_all_tool_defs) has a default
\* fixture, so under the default resolver the "Unknown tool" error payload is
\* returned only for tool names that are not in the catalog.
C40_CatalogToolsHaveFixtures ==
    \A tc \in C40_ResolvedCalls :
        /\ tc.tool_name \in C40_CatalogNames
              => /\ tc.tool_name \in DOMAIN DEFAULT_FIXTURES
                 /\ tc.result = json_dumps_indent2(DEFAULT_FIXTURES[tc.tool_name])
        /\ tc.result = json_dumps(unknown_tool_payload(tc.tool_name))
              => tc.tool_name \notin C40_CatalogNames

====
